---- MODULE Spec2Model ----
(***************************************************************************)
(* InboundForm: the submission store, the analytics tracker and the        *)
(* analytics aggregator (server/storage.ts, server/routes.ts) and the      *)
(* form wizard that drives them (client/src/pages/form.tsx).               *)
(*                                                                         *)
(* Time is counted in whole days; the aggregator's windows of              *)
(* 7*24*60*60*1000 ms and 30*24*60*60*1000 ms are 7 and 30 of these units. *)
(* A table row keeps the columns some query or handler reads; the          *)
(* generated primary keys of form_sessions and form_analytics_events and   *)
(* the event timestamp are read by nothing and are left out.               *)
(***************************************************************************)
EXTENDS Integers, Sequences, FiniteSets, Bags, TLC

VARIABLES
  clock,        \* Date.now() / now(), in days
  submissions,  \* table form_submissions, in insertion order
  sessions,     \* table form_sessions: a set of rows, session_id unique
  events,       \* table form_analytics_events: a bag of rows
  timePeriod,   \* req.query.timePeriod of the request answered last
  dateFilter,   \* getAnalytics' local dateFilter while answering it
  response,     \* the HTTP response the server sent last
  page,         \* the wizard's route: "none" (not opened), "form", "success"
  currentStep,  \* Form state currentStep
  formData,     \* Form state formData
  errors,       \* Form state errors
  touched,      \* Form state touched
  isSubmitting, \* Form state isSubmitting
  sessionStartTime, \* Form state sessionStartTime
  network,      \* the wizard's requests sent and not yet handled: a bag
  call          \* a getAnalytics call between its queries: its locals

store == <<submissions, sessions, events>>
server == <<submissions, sessions, events, timePeriod, dateFilter, response,
            call>>
wizard == <<page, currentStep, formData, errors, touched, isSubmitting,
            sessionStartTime, network>>
vars == <<clock, submissions, sessions, events, timePeriod, dateFilter, response,
          page, currentStep, formData, errors, touched, isSubmitting,
          sessionStartTime, network, call>>

----------------------------------------------------------------------------
\* Bounds of the model.

\* The clock stops here.
MaxTime == 60
\* Rows of form_analytics_events written by direct API requests.
MaxEvents == 2
\* Rows of form_analytics_events written by one wizard session.
MaxWizardEvents == 9
\* Rows of form_submissions.
MaxSubmissions == 1
\* Rows of form_submissions where the admin lists and exports them.
MaxStored == 2
\* Requests of the wizard sent and not yet handled.
MaxInFlight == 3

\* The aggregator's windows, in days.
SevenDays == 7
ThirtyDays == 30

\* The days one Tick lets pass.
TickDays == {ThirtyDays}

\* SQL NULL in a nullable column (times, ids and durations are >= 0).
NULL == -1
\* A JSON body field that is absent (undefined after destructuring).
UNDEFINED == -2

\* Session tokens (crypto.randomUUID() on the client); "" is an absent one.
SessionIds == {"s1", "s2"}
WizardSession == "s1"

----------------------------------------------------------------------------
\* Strings that validation inspects are sequences of one-character strings.

EmptyStr == <<>>
BlankStr == <<" ">>
WordStr == <<"h", "i">>
NotAnEmail == <<"n", "o", "-", "a", "t">>
ShortTldEmail == <<"a", "@", "b", ".", "c">>
GoodEmail == <<"a", "@", "b", ".", "c", "o">>

Letters == {"a", "b", "c", "h", "i", "n", "o", "t"}
\* \s of a JavaScript regular expression, on the model's alphabet.
IsSpace(c) == c \in {" ", "\n", "\r", "\t"}

\* String.prototype.trim: leading and trailing white space removed.
RECURSIVE TrimStart(_)
TrimStart(s) ==
  IF s = <<>> THEN <<>>
  ELSE IF IsSpace(Head(s)) THEN TrimStart(Tail(s)) ELSE s

RECURSIVE TrimEnd(_)
TrimEnd(s) ==
  IF s = <<>> THEN <<>>
  ELSE IF IsSpace(s[Len(s)]) THEN TrimEnd(SubSeq(s, 1, Len(s) - 1)) ELSE s

Trim(s) == TrimEnd(TrimStart(s))

\* [^\s@]+ : a non-empty run without white space or "@".
IsLocalRun(s) ==
  /\ Len(s) >= 1
  /\ \A k \in 1..Len(s) : ~IsSpace(s[k]) /\ s[k] # "@"

\* emailRegex = /^[^\s@]+@[^\s@]+\.[^\s@]+$/ of validateField.
EmailRegexTest(s) ==
  \E i \in 1..Len(s) : \E j \in 1..Len(s) :
    /\ i < j
    /\ s[i] = "@"
    /\ s[j] = "."
    /\ IsLocalRun(SubSeq(s, 1, i - 1))
    /\ IsLocalRun(SubSeq(s, i + 1, j - 1))
    /\ IsLocalRun(SubSeq(s, j + 1, Len(s)))

----------------------------------------------------------------------------
\* The wizard's questions (allQuestions), in order; steps are 0-based.

allQuestions == <<"name", "email", "referralSource", "additionalInfo">>
NumQuestions == Len(allQuestions)
Fields == {"name", "email", "referralSource", "referralSourceOther",
           "additionalInfo"}
QuestionLabel(field) ==
  CASE field = "name" -> "What's your name"
    [] field = "email" -> "What's your email address"
    [] field = "referralSource" -> "How did you hear about us"
    [] OTHER -> "Tell us more about your request"

\* undefined, as an error message.
NoError == ""

\* validateField without the check of the email's format.
validateField_EmailUnchecked(field, value) ==
  IF field = "referralSource" \/ field = "referralSourceOther" THEN NoError
  ELSE IF Trim(value) = <<>> THEN QuestionLabel(field) \o " is required"
  ELSE NoError

\* validateField(field, value): the error message, or NoError.
validateField(field, value) ==
  IF field = "referralSource" \/ field = "referralSourceOther" THEN NoError
  ELSE IF Trim(value) = <<>> THEN QuestionLabel(field) \o " is required"
  ELSE IF field = "email" /\ ~EmailRegexTest(value)
    THEN "Please enter a valid email address"
  ELSE NoError

----------------------------------------------------------------------------
\* insertFormSubmissionSchema (shared/schema.ts).

\* z.string().email(): zod's pattern
\* ^(?!\.)(?!.*\.\.)([A-Z0-9_'+\-\.]*)[A-Z0-9_+-]@([A-Z0-9][A-Z0-9\-]*\.)+[A-Z]{2,}$
\* (case-insensitive), on the model's alphabet, which has no digits.
ZodEmail(s) ==
  /\ Len(s) >= 1
  /\ s[1] # "."
  /\ \A k \in 1..(Len(s) - 1) : ~(s[k] = "." /\ s[k + 1] = ".")
  /\ \E i \in 1..Len(s) :
       /\ s[i] = "@"
       /\ i >= 2
       /\ \A k \in 1..(i - 1) : s[k] \in Letters \cup {"_", "'", "+", "-", "."}
       /\ s[i - 1] \in Letters \cup {"_", "+", "-"}
       /\ \E d \in (i + 2)..(Len(s) - 2) :
            /\ s[d] = "."
            /\ \A k \in (d + 1)..Len(s) : s[k] \in Letters
            /\ \A k \in (i + 1)..(d - 1) : s[k] \in Letters \cup {"-", "."}
            /\ \A k \in (i + 1)..(d - 1) :
                 (k = i + 1 \/ s[k - 1] = ".") => s[k] \in Letters

\* The issues safeParse reports for a request body, as the set of their messages.
\* The schema without the rule on name.
SchemaIssues_NameUnchecked(body) ==
  {m \in {"Please enter a valid email address",
          "Please provide some additional information"} :
     \/ m = "Please enter a valid email address" /\ ~ZodEmail(body.email)
     \/ m = "Please provide some additional information"
          /\ Len(body.additionalInfo) < 1}

SchemaIssues(body) ==
  {m \in {"Please enter a valid email address", "Name is required",
          "Please provide some additional information"} :
     \/ m = "Please enter a valid email address" /\ ~ZodEmail(body.email)
     \/ m = "Name is required" /\ Len(body.name) < 1
     \/ m = "Please provide some additional information"
          /\ Len(body.additionalInfo) < 1}

----------------------------------------------------------------------------
\* DatabaseStorage (server/storage.ts). db is the record of the three tables;
\* an operation yields [ok, db, row]: ok is FALSE when the query throws.

Db(subs, sess, evts) == [submissions |-> subs, sessions |-> sess, events |-> evts]
NoRow == [none |-> TRUE]

\* gen_random_uuid(): an id no stored submission has.
NewSubmissionId(db) == Len(db.submissions) + 1

SubmissionIdsOf(db) == {db.submissions[k].id : k \in 1..Len(db.submissions)}

\* createFormSubmission giving every row the same id.
createFormSubmission_SameId(db, now, submission) ==
  LET row == [id |-> 1,
              name |-> submission.name,
              email |-> submission.email,
              additionalInfo |-> submission.additionalInfo,
              submittedAt |-> now]
  IN [ok |-> TRUE,
      db |-> [db EXCEPT !.submissions = Append(@, row)],
      row |-> row]

createFormSubmission(db, now, submission) ==
  LET row == [id |-> NewSubmissionId(db),
              name |-> submission.name,
              email |-> submission.email,
              additionalInfo |-> submission.additionalInfo,
              submittedAt |-> now]
  IN [ok |-> TRUE,
      db |-> [db EXCEPT !.submissions = Append(@, row)],
      row |-> row]

\* INSERT INTO form_sessions: session_id is UNIQUE, a second insert throws.
createSession(db, now, sessionId) ==
  IF \E r \in db.sessions : r.sessionId = sessionId
  THEN [ok |-> FALSE, db |-> db, row |-> NoRow]
  ELSE LET row == [sessionId |-> sessionId, startedAt |-> now,
                   completedAt |-> NULL, submissionId |-> NULL,
                   timeToComplete |-> NULL]
       IN [ok |-> TRUE,
           db |-> [db EXCEPT !.sessions = @ \cup {row}],
           row |-> row]

\* trackEvent with session_id referencing form_sessions: an event for a
\* sessionId that has no session row is not inserted.
trackEvent_SessionRequired(db, sessionId, step, eventType) ==
  LET row == [sessionId |-> sessionId, step |-> step, eventType |-> eventType]
  IN IF \E r \in db.sessions : r.sessionId = sessionId
     THEN [ok |-> TRUE,
           db |-> [db EXCEPT !.events = @ (+) SetToBag({row})],
           row |-> row]
     ELSE [ok |-> FALSE, db |-> db, row |-> NoRow]

trackEvent(db, sessionId, step, eventType) ==
  LET row == [sessionId |-> sessionId, step |-> step, eventType |-> eventType]
  IN [ok |-> TRUE,
      db |-> [db EXCEPT !.events = @ (+) SetToBag({row})],
      row |-> row]

\* completeSession also setting started_at to the time of completion.
completeSession_Restarting(db, now, sessionId, submissionId, timeToComplete) ==
  LET hit == {r \in db.sessions : r.sessionId = sessionId}
      upd(r) == [r EXCEPT !.startedAt = now,
                          !.completedAt = now,
                          !.submissionId = submissionId,
                          !.timeToComplete = timeToComplete]
  IN IF hit = {} THEN [ok |-> TRUE, db |-> db, row |-> NoRow]
     ELSE IF submissionId \notin SubmissionIdsOf(db)
       THEN [ok |-> FALSE, db |-> db, row |-> NoRow]
     ELSE [ok |-> TRUE,
           db |-> [db EXCEPT !.sessions = (@ \ hit) \cup {upd(r) : r \in hit}],
           row |-> upd(CHOOSE r \in hit : TRUE)]

\* UPDATE form_sessions SET ... WHERE session_id = sessionId RETURNING *:
\* no matching row updates nothing and returns undefined; a matching row with
\* a submission_id that references no form_submissions row throws.
completeSession(db, now, sessionId, submissionId, timeToComplete) ==
  LET hit == {r \in db.sessions : r.sessionId = sessionId}
      upd(r) == [r EXCEPT !.completedAt = now,
                          !.submissionId = submissionId,
                          !.timeToComplete = timeToComplete]
  IN IF hit = {} THEN [ok |-> TRUE, db |-> db, row |-> NoRow]
     ELSE IF submissionId \notin SubmissionIdsOf(db)
       THEN [ok |-> FALSE, db |-> db, row |-> NoRow]
     ELSE [ok |-> TRUE,
           db |-> [db EXCEPT !.sessions = (@ \ hit) \cup {upd(r) : r \in hit}],
           row |-> upd(CHOOSE r \in hit : TRUE)]

----------------------------------------------------------------------------
\* DatabaseStorage.getAnalytics.

\* The loop "for (let step = 0; step <= 2; step++)".
LastAnalyticsStep == 2

\* dateFilter: <<>> is null, <<t>> the Date t.
NoFilter == <<>>
getDateFilter(now, period) ==
  IF period = "7days" THEN <<now - SevenDays>>
  ELSE IF period = "30days" THEN <<now - ThirtyDays>>
  ELSE NoFilter

\* gte(column, value) of drizzle-orm: column >= value.
gte(column, value) == column >= value

\* A JavaScript number that is a quotient: num / den, den > 0.
Quotient(n, d) == [num |-> n, den |-> d]
\* (a / b) * 100
Percent(a, b) == Quotient(a * 100, b)
Zero == Quotient(0, 1)

sessionsQuery(db, df) ==
  IF df # NoFilter
  THEN Cardinality({r \in db.sessions : gte(r.startedAt, df[1])})
  ELSE Cardinality(db.sessions)

submissionsQuery(db, df) ==
  IF df # NoFilter
  THEN Cardinality({r \in db.sessions :
                      r.completedAt # NULL /\ gte(r.startedAt, df[1])})
  ELSE Cardinality({r \in db.sessions : r.completedAt # NULL})

\* The completion rate without the guard on totalSessions.
completionRateOf_Unguarded(totalSessions, totalSubmissions) ==
  Percent(totalSubmissions, totalSessions)

completionRateOf(totalSessions, totalSubmissions) ==
  IF totalSessions > 0 THEN Percent(totalSubmissions, totalSessions) ELSE Zero

RECURSIVE SumTimeToComplete(_)
SumTimeToComplete(rows) ==
  IF rows = {} THEN 0
  ELSE LET r == CHOOSE x \in rows : TRUE
       IN r.timeToComplete + SumTimeToComplete(rows \ {r})

\* AVG(time_to_complete) over the selected rows, typed sql<number>: <<>> is
\* NULL (no rows), <<q>> the quotient sum / count.
avgTimeQuery(db, df) ==
  LET rows == IF df # NoFilter
              THEN {r \in db.sessions :
                      r.timeToComplete # NULL /\ gte(r.startedAt, df[1])}
              ELSE {r \in db.sessions : r.timeToComplete # NULL}
  IN IF rows = {} THEN <<>>
     ELSE <<Quotient(SumTimeToComplete(rows), Cardinality(rows))>>

\* Math.round(num / den): floor(num / den + 1/2).
MathRound(q) == (2 * q.num + q.den) \div (2 * q.den)

\* avg ? Math.round(avg) : null -- a number is falsy when it is 0.
averageTimeToCompleteOf(avg) ==
  IF avg # <<>> /\ avg[1].num # 0 THEN MathRound(avg[1]) ELSE NULL

\* viewedQuery / continuedQuery: the number of rows selected for a step; with
\* a dateFilter the events are inner-joined with form_sessions, an event row
\* appearing once per session row it joins.
viewRows(db, df, step) ==
  LET isView(e) == e.step = step /\ e.eventType = "view"
      joined(e) == {r \in db.sessions :
                      r.sessionId = e.sessionId /\ gte(r.startedAt, df[1])}
  IN IF df # NoFilter
     THEN BagCardinality(
            [e \in {x \in DOMAIN db.events : isView(x) /\ joined(x) # {}} |->
               db.events[e] * Cardinality(joined(e))])
     ELSE BagCardinality(
            [e \in {x \in DOMAIN db.events : isView(x)} |-> db.events[e]])

completedQuery(db, df) ==
  IF df # NoFilter
  THEN Cardinality({r \in db.sessions :
                      r.completedAt # NULL /\ gte(r.startedAt, df[1])})
  ELSE Cardinality({r \in db.sessions : r.completedAt # NULL})

\* The entry pushed for a step, from the results of its two queries.
dropOffEntryOf(step, viewed, continued) ==
  [step |-> step,
   viewed |-> viewed,
   continued |-> continued,
   dropOffRate |-> IF viewed > 0
                   THEN Percent(viewed - continued, viewed)
                   ELSE Zero]

\* The second query of a step: the views of the next step, or for the last
\* step the completed sessions.
continuedQuery(db, df, step) ==
  IF step < LastAnalyticsStep
  THEN viewRows(db, df, step + 1)
  ELSE completedQuery(db, df)

dropOffEntry(db, df, step) ==
  dropOffEntryOf(step, viewRows(db, df, step), continuedQuery(db, df, step))

\* getAnalytics with every timePeriod but "7days" taken as a 30-day window.
getAnalytics_AlwaysWindowed(db, now, period) ==
  LET df == IF period = "7days" THEN <<now - SevenDays>>
            ELSE <<now - ThirtyDays>>
      totalSessions == sessionsQuery(db, df)
      totalSubmissions == submissionsQuery(db, df)
  IN [totalSessions |-> totalSessions,
      totalSubmissions |-> totalSubmissions,
      completionRate |-> completionRateOf(totalSessions, totalSubmissions),
      averageTimeToComplete |-> averageTimeToCompleteOf(avgTimeQuery(db, df)),
      dropOffByStep |-> [k \in 1..(LastAnalyticsStep + 1) |->
                           dropOffEntry(db, df, k - 1)]]

getAnalytics(db, now, period) ==
  LET df == getDateFilter(now, period)
      totalSessions == sessionsQuery(db, df)
      totalSubmissions == submissionsQuery(db, df)
  IN [totalSessions |-> totalSessions,
      totalSubmissions |-> totalSubmissions,
      completionRate |-> completionRateOf(totalSessions, totalSubmissions),
      averageTimeToComplete |-> averageTimeToCompleteOf(avgTimeQuery(db, df)),
      dropOffByStep |-> [k \in 1..(LastAnalyticsStep + 1) |->
                           dropOffEntry(db, df, k - 1)]]

----------------------------------------------------------------------------
\* The routes (server/routes.ts). A handler yields [db, response].

Response(kind, status, body) == [kind |-> kind, status |-> status, body |-> body]
\* res.json({ error: message })
Error(message) == [error |-> message]
NoResponse == Response("none", 0, Error(""))
Out(db, resp) == [db |-> db, response |-> resp]

\* app.post("/api/form-submissions")
postFormSubmissions(db, now, body) ==
  IF SchemaIssues(body) # {}
  THEN Out(db, Response("invalid", 400, [details |-> SchemaIssues(body)]))
  ELSE LET r == createFormSubmission(db, now, body)
       IN Out(r.db, Response("submission", 201, r.row))

\* app.post("/api/analytics/session-start")
postSessionStart(db, now, body) ==
  IF body.sessionId = ""
  THEN Out(db, Response("error", 400, Error("sessionId is required")))
  ELSE LET r == createSession(db, now, body.sessionId)
       IN IF r.ok THEN Out(r.db, Response("session", 201, r.row))
          ELSE Out(db, Response("error", 500,
                                Error("Failed to create analytics session")))

\* The event route taking a step of 0 for a missing one.
postEvent_StepFalsy(db, body) ==
  IF \/ body.sessionId = ""
     \/ body.step = UNDEFINED \/ body.step = 0
     \/ body.eventType = ""
  THEN Out(db, Response("error", 400,
                        Error("sessionId, step, and eventType are required")))
  ELSE LET r == trackEvent(db, body.sessionId, body.step, body.eventType)
       IN Out(r.db, Response("event", 201, r.row))

\* app.post("/api/analytics/event")
postEvent(db, body) ==
  IF body.sessionId = "" \/ body.step = UNDEFINED \/ body.eventType = ""
  THEN Out(db, Response("error", 400,
                        Error("sessionId, step, and eventType are required")))
  ELSE LET r == trackEvent(db, body.sessionId, body.step, body.eventType)
       IN Out(r.db, Response("event", 201, r.row))

\* The session-complete route answering a failure with the values it was sent.
patchSessionComplete_Leaking(db, now, body) ==
  IF \/ body.sessionId = ""
     \/ body.submissionId = UNDEFINED
     \/ body.timeToComplete = UNDEFINED
  THEN Out(db, Response("error", 400,
                        Error("sessionId, submissionId, and timeToComplete are required")))
  ELSE LET r == completeSession(db, now, body.sessionId, body.submissionId,
                                body.timeToComplete)
       IN IF r.ok THEN Out(r.db, Response("session", 200, r.row))
          ELSE Out(db, Response("error", 500, Error(body.sessionId)))

\* app.patch("/api/analytics/session-complete")
patchSessionComplete(db, now, body) ==
  IF \/ body.sessionId = ""
     \/ body.submissionId = UNDEFINED
     \/ body.timeToComplete = UNDEFINED
  THEN Out(db, Response("error", 400,
                        Error("sessionId, submissionId, and timeToComplete are required")))
  ELSE LET r == completeSession(db, now, body.sessionId, body.submissionId,
                                body.timeToComplete)
       IN IF r.ok THEN Out(r.db, Response("session", 200, r.row))
          ELSE Out(db, Response("error", 500,
                                Error("Failed to complete analytics session")))

\* The admin analytics route, also recording the visit as an event.
getAdminAnalytics_Tracking(db, now, period) ==
  Out(trackEvent(db, "admin", 0, "analytics").db,
      Response("analytics", 200, getAnalytics(db, now, period)))

\* app.get("/api/admin/analytics"), past isAuthenticated.
getAdminAnalytics(db, now, period) ==
  Out(db, Response("analytics", 200, getAnalytics(db, now, period)))

----------------------------------------------------------------------------
\* Requests sent straight to the API.

SessionIdInputs == SessionIds \cup {""}
StepInputs == {0, 1, 2, UNDEFINED}
EventTypeInputs == {"view", "next", ""}
SubmissionIdInputs == (1..(MaxSubmissions + 1)) \cup {UNDEFINED}
\* 0 and 3 seconds, JSON null, and an absent field.
TimeToCompleteInputs == {0, 3, NULL, UNDEFINED}
TimePeriodInputs == {"7days", "30days", "all", ""}
SubmissionBodies ==
  [name : {EmptyStr, WordStr},
   email : {NotAnEmail, GoodEmail},
   additionalInfo : {EmptyStr, WordStr}]

CurrentDb == Db(submissions, sessions, events)

\* No getAnalytics call is between two of its queries.
NoCall ==
  [pc |-> "idle", dateFilter |-> NoFilter, totalSessions |-> 0,
   totalSubmissions |-> 0, avg |-> <<>>, step |-> 0, viewed |-> 0,
   dropOffByStep |-> <<>>]

\* The server handles one request: the store and the response change.
Serve(out) ==
  /\ submissions' = out.db.submissions
  /\ sessions' = out.db.sessions
  /\ events' = out.db.events
  /\ response' = out.response
  /\ timePeriod' = ""
  /\ dateFilter' = NoFilter
  /\ call' = call

Init ==
  /\ clock = 0
  /\ submissions = <<>>
  /\ sessions = {}
  /\ events = EmptyBag
  /\ dateFilter = NoFilter
  /\ timePeriod = ""
  /\ response = NoResponse
  /\ page = "none"
  /\ currentStep = 0
  /\ formData = [f \in Fields |-> EmptyStr]
  /\ errors = [f \in Fields |-> NoError]
  /\ touched = [f \in Fields |-> FALSE]
  /\ isSubmitting = FALSE
  /\ sessionStartTime = 0
  /\ network = EmptyBag
  /\ call = NoCall

\* Time passes.
Tick(d) ==
  /\ clock + d <= MaxTime
  /\ clock' = clock + d
  /\ UNCHANGED <<server, wizard>>

\* A POST /api/form-submissions while the table holds fewer than max rows.
PostFormSubmissionsWithin(max, body) ==
  /\ Len(submissions) < max
  /\ Serve(postFormSubmissions(CurrentDb, clock, body))
  /\ UNCHANGED <<clock, wizard>>

PostFormSubmissions(body) == PostFormSubmissionsWithin(MaxSubmissions, body)

PostSessionStart(sessionId) ==
  /\ Serve(postSessionStart(CurrentDb, clock, [sessionId |-> sessionId]))
  /\ UNCHANGED <<clock, wizard>>

PostEvent(sessionId, step, eventType) ==
  /\ BagCardinality(events) < MaxEvents
  /\ Serve(postEvent(CurrentDb, [sessionId |-> sessionId, step |-> step,
                                 eventType |-> eventType]))
  /\ UNCHANGED <<clock, wizard>>

PatchSessionComplete(sessionId, submissionId, timeToComplete) ==
  /\ Serve(patchSessionComplete(CurrentDb, clock,
             [sessionId |-> sessionId, submissionId |-> submissionId,
              timeToComplete |-> timeToComplete]))
  /\ UNCHANGED <<clock, wizard>>

GetAdminAnalytics(tp) ==
  /\ timePeriod' = tp
  /\ dateFilter' = getDateFilter(clock, tp)
  /\ LET out == getAdminAnalytics(CurrentDb, clock, tp)
     IN /\ submissions' = out.db.submissions
        /\ sessions' = out.db.sessions
        /\ events' = out.db.events
        /\ response' = out.response
  /\ UNCHANGED <<clock, wizard, call>>

\* Sessions, their completion and the aggregator, as time passes.
Next ==
  \/ \E d \in TickDays : Tick(d)
  \/ \E body \in SubmissionBodies : PostFormSubmissions(body)
  \/ \E sessionId \in SessionIdInputs : PostSessionStart(sessionId)
  \/ \E sessionId \in SessionIdInputs, submissionId \in SubmissionIdInputs,
        timeToComplete \in TimeToCompleteInputs :
       PatchSessionComplete(sessionId, submissionId, timeToComplete)
  \/ \E tp \in TimePeriodInputs : GetAdminAnalytics(tp)

Spec == Init /\ [][Next]_vars

\* Sessions, their events and the aggregator, as time passes.
NextEvents ==
  \/ \E d \in TickDays : Tick(d)
  \/ \E sessionId \in SessionIdInputs : PostSessionStart(sessionId)
  \/ \E sessionId \in SessionIdInputs, step \in StepInputs,
        eventType \in EventTypeInputs : PostEvent(sessionId, step, eventType)
  \/ \E tp \in TimePeriodInputs : GetAdminAnalytics(tp)

SpecEvents == Init /\ [][NextEvents]_vars

----------------------------------------------------------------------------
\* The form wizard (client/src/pages/form.tsx), one browser tab. Its requests
\* reach the server in the order it sends them, each handled before the next.

\* What the visitor types or selects.
FieldInputs == {EmptyStr, WordStr, GoodEmail}
\* Date.now() - sessionStartTime in whole seconds, beyond the whole days.
ElapsedSeconds == {0, 3}
SecondsPerDay == 86400

currentQuestion == allQuestions[currentStep + 1]
currentValue == formData[currentQuestion]
questionType(field) ==
  CASE field = "email" -> "email"
    [] field = "referralSource" -> "select"
    [] field = "additionalInfo" -> "textarea"
    [] OTHER -> "text"

EventBody(step, eventType) ==
  [sessionId |-> WizardSession, step |-> step, eventType |-> eventType]

\* apiRequest resolves for a 2xx response and throws for any other.
ResOk(resp) == resp.status >= 200 /\ resp.status < 300

\* Mount: the session-start effect, then the view effect for step 0.
OpenForm ==
  /\ page = "none"
  /\ page' = "form"
  /\ sessionStartTime' = clock
  /\ LET started == postSessionStart(CurrentDb, clock,
                                     [sessionId |-> WizardSession])
     IN Serve(postEvent(started.db, EventBody(currentStep, "view")))
  /\ UNCHANGED <<clock, currentStep, formData, errors, touched, isSubmitting,
                 network>>

\* handleFieldChange writing the name whatever the step.
handleFieldChange_NameAlways(value) ==
  /\ page = "form"
  /\ formData' = [formData EXCEPT !["name"] = value]
  /\ errors' = IF touched["name"]
               THEN [errors EXCEPT !["name"] = validateField("name", value)]
               ELSE errors
  /\ UNCHANGED <<clock, server, page, currentStep, touched, isSubmitting,
                 sessionStartTime, network>>

handleFieldChange(value) ==
  /\ page = "form"
  /\ formData' = [formData EXCEPT ![currentQuestion] = value]
  /\ errors' = IF touched[currentQuestion]
               THEN [errors EXCEPT ![currentQuestion] =
                       validateField(currentQuestion, value)]
               ELSE errors
  /\ UNCHANGED <<clock, server, page, currentStep, touched, isSubmitting,
                 sessionStartTime, network>>

\* onBlur of the Input and the Textarea; the Select has none.
handleFieldBlur ==
  /\ page = "form"
  /\ questionType(currentQuestion) # "select"
  /\ touched' = [touched EXCEPT ![currentQuestion] = TRUE]
  /\ errors' = [errors EXCEPT ![currentQuestion] =
                  validateField(currentQuestion, currentValue)]
  /\ UNCHANGED <<clock, server, page, currentStep, formData, isSubmitting,
                 sessionStartTime, network>>

\* submitForm, after goToNext's "next" event reached the server with store db:
\* the submit event, the submission, then the session's completion.
submitFormOf(db, elapsed, step, data) ==
  LET tracked == postEvent(db, EventBody(step, "submit"))
      posted == postFormSubmissions(tracked.db, clock, data)
      timeToComplete == (clock - sessionStartTime) * SecondsPerDay + elapsed
      completed == patchSessionComplete(posted.db, clock,
                     [sessionId |-> WizardSession,
                      submissionId |-> posted.response.body.id,
                      timeToComplete |-> timeToComplete])
  IN IF ResOk(posted.response)
     THEN [out |-> completed, page |-> "success"]
     ELSE [out |-> posted, page |-> "form"]

\* submitForm with the currentStep and formData of its render.
submitForm(db, elapsed) == submitFormOf(db, elapsed, currentStep, formData)

goToNext ==
  /\ page = "form"
  /\ touched' = [touched EXCEPT ![currentQuestion] = TRUE]
  /\ errors' = [errors EXCEPT ![currentQuestion] =
                  validateField(currentQuestion, currentValue)]
  /\ IF validateField(currentQuestion, currentValue) # NoError
     THEN UNCHANGED <<server, page, currentStep>>
     ELSE /\ BagCardinality(events) + 2 <= MaxWizardEvents
          /\ LET tracked == postEvent(CurrentDb, EventBody(currentStep, "next"))
             IN IF currentStep < NumQuestions - 1
                THEN /\ currentStep' = currentStep + 1
                     /\ Serve(postEvent(tracked.db,
                                        EventBody(currentStep + 1, "view")))
                     /\ page' = page
                ELSE /\ Len(submissions) < MaxSubmissions
                     /\ \E elapsed \in ElapsedSeconds :
                          /\ Serve(submitForm(tracked.db, elapsed).out)
                          /\ page' = submitForm(tracked.db, elapsed).page
                     /\ currentStep' = currentStep
  /\ UNCHANGED <<clock, formData, isSubmitting, sessionStartTime, network>>

goToPrevious ==
  /\ page = "form"
  /\ currentStep > 0
  /\ BagCardinality(events) + 2 <= MaxWizardEvents
  /\ currentStep' = currentStep - 1
  /\ LET tracked == postEvent(CurrentDb, EventBody(currentStep, "back"))
     IN Serve(postEvent(tracked.db, EventBody(currentStep - 1, "view")))
  /\ UNCHANGED <<clock, page, formData, errors, touched, isSubmitting,
                 sessionStartTime, network>>

\* One visitor fills in the wizard; the admin reads the analytics.
NextWizard ==
  \/ OpenForm
  \/ \E value \in FieldInputs : handleFieldChange(value)
  \/ handleFieldBlur
  \/ goToNext
  \/ goToPrevious
  \/ \E tp \in TimePeriodInputs : GetAdminAnalytics(tp)

SpecWizard == Init /\ [][NextWizard]_vars

----------------------------------------------------------------------------
\* The aggregate the server returned last, read against the store it was
\* computed from: every write replaces response, so while response is an
\* aggregate the three tables are those getAnalytics read.

IsAnalytics == response.kind = "analytics"
Aggregate == response.body
Entries == response.body.dropOffByStep
\* A session row at or after the bound getAnalytics resolved.
InWindow(r) == dateFilter = NoFilter \/ r.startedAt >= dateFilter[1]
WindowSessions == {r \in sessions : InWindow(r)}
CompletedSessions == {r \in WindowSessions : r.completedAt # NULL}
\* The sessions of the window with at least one "view" event at a step.
DistinctViewers(step) ==
  {r \in WindowSessions :
     \E e \in DOMAIN events :
       e.sessionId = r.sessionId /\ e.step = step /\ e.eventType = "view"}
InPercentRange(q) == q.den > 0 /\ 0 <= q.num /\ q.num <= 100 * q.den
\* The quotient q is a / b * 100.
IsPercentOf(q, a, b) == q.den # 0 /\ q.num * b = a * 100 * q.den

\* C1: for an event log produced by a wizard session navigating with Next and
\* Back, every dropOffByStep entry of getAnalytics has a dropOffRate between 0
\* and 100 inclusive.
C1_DropOffRateInRange ==
  IsAnalytics =>
    \A k \in DOMAIN Entries : InPercentRange(Entries[k].dropOffRate)

\* C2: completedAt, submissionId and timeToComplete of a session are all null
\* or all non-null, and once they are set no later step changes them.
C2_CompletionSetOnce ==
  [][\A r \in sessions :
       /\ (r.completedAt = NULL) = (r.submissionId = NULL)
       /\ (r.completedAt = NULL) = (r.timeToComplete = NULL)
       /\ r.completedAt # NULL => r \in sessions']_vars

\* C3: the viewed count of every reported step is the number of distinct
\* sessions of the window with at least one "view" event at that step.
C3_ViewedCountsDistinctSessions ==
  IsAnalytics =>
    \A k \in DOMAIN Entries :
      Entries[k].viewed = Cardinality(DistinctViewers(Entries[k].step))

\* C4: before the final reported step continued is the number of sessions that
\* viewed the next step, at the final one the number of completed sessions;
\* dropOffRate is (viewed - continued) / viewed * 100, and 0 when viewed is 0;
\* so it is 100 at step 0 when step 0 has views and step 1 has none.
C4_ContinuedAndDropOffRate ==
  IsAnalytics =>
    /\ \A k \in DOMAIN Entries :
         LET e == Entries[k]
         IN /\ k < Len(Entries) =>
                 e.continued = Cardinality(DistinctViewers(e.step + 1))
            /\ k = Len(Entries) =>
                 e.continued = Cardinality(CompletedSessions)
            /\ e.viewed = 0 => e.dropOffRate.num = 0
            /\ e.viewed > 0 =>
                 IsPercentOf(e.dropOffRate, e.viewed - e.continued, e.viewed)
    /\ (Entries[1].viewed > 0 /\ Entries[2].viewed = 0) =>
         IsPercentOf(Entries[1].dropOffRate, 1, 1)

\* C5: dropOffByStep has exactly one entry for every step 0..N-1 of the wizard,
\* N the number of its questions, in ascending order, the last entry (whose
\* continued is the number of completed sessions) being the last question.
C5_OneEntryPerWizardStep ==
  IsAnalytics =>
    /\ Len(Entries) = NumQuestions
    /\ \A k \in DOMAIN Entries : Entries[k].step = k - 1
    /\ Entries[Len(Entries)].step = NumQuestions - 1

\* C6: completionRate is totalSubmissions / totalSessions * 100, totalSessions
\* the sessions of the window and totalSubmissions those of them with a
\* non-null completedAt; it is 0 when totalSessions is 0, and nothing is
\* divided by zero.
C6_CompletionRate ==
  IsAnalytics =>
    /\ Aggregate.totalSessions = Cardinality(WindowSessions)
    /\ Aggregate.totalSubmissions = Cardinality(CompletedSessions)
    /\ Aggregate.completionRate.den # 0
    /\ Cardinality(WindowSessions) = 0 => Aggregate.completionRate.num = 0
    /\ Cardinality(WindowSessions) > 0 =>
         IsPercentOf(Aggregate.completionRate, Cardinality(CompletedSessions),
                     Cardinality(WindowSessions))

\* C6's case: an aggregate over two sessions of which one is completed.
C6_Witness ==
  /\ IsAnalytics
  /\ Aggregate.totalSessions = 2
  /\ Aggregate.totalSubmissions = 1
  /\ Aggregate.completionRate = Percent(1, 2)

\* The step is a getAnalytics(tp) call.
IsAnalyticsCall(tp) == response'.kind = "analytics" /\ GetAdminAnalytics(tp)

RECURSIVE TotalTime(_)
TotalTime(rows) ==
  IF rows = {} THEN 0
  ELSE LET r == CHOOSE x \in rows : TRUE
       IN r.timeToComplete + TotalTime(rows \ {r})
\* The integer nearest to total / n, n > 0, a half rounding up.
NearestInteger(total, n) ==
  CHOOSE m \in 0..total : 2 * n * m - n <= 2 * total /\ 2 * total < 2 * n * m + n
TimedSessions == {r \in WindowSessions : r.timeToComplete # NULL}

\* C7: averageTimeToComplete is the mean, rounded to the nearest integer, of
\* timeToComplete over the sessions of the window that have one, whatever the
\* values (0 included), and null when no session of the window has one.
C7_AverageTimeToComplete ==
  IsAnalytics =>
    IF TimedSessions = {}
    THEN Aggregate.averageTimeToComplete = NULL
    ELSE Aggregate.averageTimeToComplete =
           NearestInteger(TotalTime(TimedSessions), Cardinality(TimedSessions))

\* C8: a step that ends with an aggregate returned leaves every submission,
\* session and event row as it was.
C8_AnalyticsLeavesStore ==
  [][response'.kind = "analytics" => UNCHANGED store]_vars

\* C8's case: an aggregate returned over a store with rows in all three tables.
C8_Witness ==
  /\ IsAnalytics
  /\ submissions # <<>>
  /\ sessions # {}
  /\ events # EmptyBag

\* C9, as claimed: a second getAnalytics call with the same timePeriod and no
\* write since the first returns the same aggregate, for every timePeriod.
C9_IdempotentAnyWindow ==
  [][\A tp \in TimePeriodInputs :
       (IsAnalytics /\ timePeriod = tp /\ IsAnalyticsCall(tp))
         => response' = response]_vars

\* The two bounds admit the same sessions.
SameWindow ==
  \/ dateFilter' = dateFilter
  \/ /\ dateFilter # NoFilter
     /\ dateFilter' # NoFilter
     /\ \A r \in sessions :
          gte(r.startedAt, dateFilter[1]) = gte(r.startedAt, dateFilter'[1])

\* C9, amended: a second getAnalytics call with the same timePeriod and no
\* write since the first returns the same aggregate when no session started
\* between the lower bounds the two calls resolve: always for an unbounded
\* window, and for 7days and 30days unless a session has left the window as
\* the clock advanced.
C9_IdempotentSameWindow ==
  [][\A tp \in TimePeriodInputs :
       (IsAnalytics /\ timePeriod = tp /\ IsAnalyticsCall(tp) /\ SameWindow)
         => response' = response]_vars

\* C9's case: a 30-day aggregate taken after the clock advanced twice, over
\* sessions that all started after the first advance and events of theirs.
C9_Witness ==
  /\ IsAnalytics
  /\ timePeriod = "30days"
  /\ sessions # {}
  /\ \A r \in sessions : r.startedAt = ThirtyDays
  /\ dateFilter = <<ThirtyDays>>
  /\ Aggregate.totalSessions = Cardinality(sessions)
  /\ Aggregate.dropOffByStep[1].viewed > 0

\* C10: getAnalytics resolves timePeriod to the bound now - 7 days ("7days"),
\* now - 30 days ("30days") or none (anything else), and every metric counts
\* only the sessions started at or after the bound and only events of those
\* sessions.
C10_MetricsOverWindow ==
  [][\A tp \in TimePeriodInputs :
       IsAnalyticsCall(tp) =>
         LET bound == IF tp = "7days" THEN <<clock - 7>>
                      ELSE IF tp = "30days" THEN <<clock - 30>>
                      ELSE <<>>
             win == {r \in sessions : bound = <<>> \/ r.startedAt >= bound[1]}
             done == {r \in win : r.completedAt # NULL}
             timed == {r \in win : r.timeToComplete # NULL}
             viewsAt(step) ==
               BagCardinality(
                 [e \in {x \in DOMAIN events :
                           /\ x.step = step
                           /\ x.eventType = "view"
                           /\ \E r \in win : r.sessionId = x.sessionId} |->
                    events[e]])
             body == response'.body
         IN /\ dateFilter' = bound
            /\ body.totalSessions = Cardinality(win)
            /\ body.totalSubmissions = Cardinality(done)
            /\ timed = {} => body.averageTimeToComplete = NULL
            /\ body.averageTimeToComplete # NULL =>
                 body.averageTimeToComplete =
                   NearestInteger(TotalTime(timed), Cardinality(timed))
            /\ \A k \in DOMAIN body.dropOffByStep :
                 LET e == body.dropOffByStep[k]
                 IN /\ e.viewed = viewsAt(e.step)
                    /\ k < Len(body.dropOffByStep) =>
                         e.continued = viewsAt(e.step + 1)
                    /\ k = Len(body.dropOffByStep) =>
                         e.continued = Cardinality(done)]_vars

----------------------------------------------------------------------------
\* The admin's list of submissions and its exports (server/routes.ts,
\* DatabaseStorage.getAllFormSubmissions).

\* Field values with the characters a CSV or JSON writer must escape.
CommaQuoteStr == <<"a", ",", "\"">>
QuoteLfStr == <<"\"", "\n">>
CrStr == <<"\r", "b">>

\* Request bodies of POST /api/form-submissions, valid and invalid.
StoredBodies ==
  [name : {EmptyStr, WordStr, CommaQuoteStr},
   email : {NotAnEmail, GoodEmail},
   additionalInfo : {EmptyStr, QuoteLfStr, CrStr}]

\* The orders of 1..n.
Orders(n) == {p \in [1..n -> 1..n] : \A i, j \in 1..n : p[i] = p[j] => i = j}

\* The select without its ORDER BY: the rows in any order.
getAllFormSubmissions_Unordered(db) ==
  {[k \in 1..Len(db.submissions) |-> db.submissions[p[k]]] :
     p \in Orders(Len(db.submissions))}

\* SELECT * FROM form_submissions ORDER BY submitted_at DESC: the results the
\* query can give, rows of equal submitted_at coming in any order.
getAllFormSubmissions(db) ==
  LET n == Len(db.submissions)
      desc(p) == \A i \in 1..(n - 1) :
                   db.submissions[p[i]].submittedAt >=
                     db.submissions[p[i + 1]].submittedAt
  IN {[k \in 1..n |-> db.submissions[p[k]]] : p \in {q \in Orders(n) : desc(q)}}

\* app.get("/api/admin/submissions"), past isAuthenticated; rows is what
\* getAllFormSubmissions returned.
getAdminSubmissions(db, rows) ==
  Out(db, Response("submissions", 200, [rows |-> rows]))

GetAdminSubmissions ==
  /\ \E rows \in getAllFormSubmissions(CurrentDb) :
       Serve(getAdminSubmissions(CurrentDb, rows))
  /\ UNCHANGED <<clock, wizard>>

\* A property of an object: <<value>>, or <<>> when the object has none.
Prop(row, name) == IF name \in DOMAIN row THEN <<row[name]>> ELSE <<>>

\* value.includes(c)
Includes(value, c) == \E k \in 1..Len(value) : value[k] = c

\* value.replace(/"/g, '""')
RECURSIVE ReplaceQuotes(_)
ReplaceQuotes(value) ==
  IF value = <<>> THEN <<>>
  ELSE (IF Head(value) = "\"" THEN <<"\"", "\"">> ELSE <<Head(value)>>)
         \o ReplaceQuotes(Tail(value))

\* escapeCSVField putting a field in quotes without doubling its quotes.
escapeCSVField_QuotesKept(field) ==
  LET value == IF field = <<>> THEN EmptyStr ELSE field[1]
  IN IF \/ Includes(value, ",") \/ Includes(value, "\"")
        \/ Includes(value, "\n") \/ Includes(value, "\r")
     THEN <<"\"">> \o value \o <<"\"">>
     ELSE value

\* escapeCSVField(field), field a property as Prop gives it.
escapeCSVField(field) ==
  LET value == IF field = <<>> THEN EmptyStr ELSE field[1]
  IN IF \/ Includes(value, ",") \/ Includes(value, "\"")
        \/ Includes(value, "\n") \/ Includes(value, "\r")
     THEN <<"\"">> \o ReplaceQuotes(value) \o <<"\"">>
     ELSE value

\* parts.join(sep)
RECURSIVE Join(_, _)
Join(parts, sep) ==
  IF parts = <<>> THEN <<>>
  ELSE IF Len(parts) = 1 THEN parts[1]
  ELSE parts[1] \o sep \o Join(Tail(parts), sep)

\* The decimal digits of a natural number.
DigitChars == <<"0", "1", "2", "3", "4", "5", "6", "7", "8", "9">>
RECURSIVE Digits(_)
Digits(n) ==
  IF n < 10 THEN <<DigitChars[n + 1]>>
  ELSE Digits(n \div 10) \o <<DigitChars[(n % 10) + 1]>>

\* formatDate(date): `${month} ${day}, ${year} ${time}`; the day is the
\* clock's, the month, year and time of day are those of day 0.
formatDate(date) ==
  <<"J", "a", "n", " ">> \o Digits(date) \o
    <<",", " ", "1", "9", "7", "0", " ", "1", "2", ":", "0", "0", " ", "A", "M">>

headers ==
  <<<<"N", "a", "m", "e">>,
    <<"E", "m", "a", "i", "l">>,
    <<"R", "e", "f", "e", "r", "r", "a", "l", " ", "S", "o", "u", "r",
      "c", "e">>,
    <<"R", "e", "f", "e", "r", "r", "a", "l", " ", "S", "o", "u", "r",
      "c", "e", " ", "(", "O", "t", "h", "e", "r", ")">>,
    <<"A", "d", "d", "i", "t", "i", "o", "n", "a", "l", " ", "I", "n",
      "f", "o">>,
    <<"S", "u", "b", "m", "i", "t", "t", "e", "d", " ", "A", "t">>>>

\* The body of the CSV export for the rows getAllFormSubmissions returned.
csvContent(rows) ==
  LET row(submission) ==
        <<escapeCSVField(Prop(submission, "name")),
          escapeCSVField(Prop(submission, "email")),
          escapeCSVField(Prop(submission, "referralSource")),
          escapeCSVField(Prop(submission, "referralSourceOther")),
          escapeCSVField(Prop(submission, "additionalInfo")),
          escapeCSVField(<<formatDate(submission.submittedAt)>>)>>
      csvRows == <<Join(headers, <<",">>)>> \o
                   [k \in 1..Len(rows) |-> Join(row(rows[k]), <<",">>)]
  IN Join(csvRows, <<"\r", "\n">>)

\* app.get("/api/admin/export/csv"), past isAuthenticated.
getExportCsv(db, rows) ==
  Out(db, Response("csv", 200, [text |-> csvContent(rows)]))

GetExportCsv ==
  /\ \E rows \in getAllFormSubmissions(CurrentDb) :
       Serve(getExportCsv(CurrentDb, rows))
  /\ UNCHANGED <<clock, wizard>>

\* JSON.stringify of a string: quoted, with the quote, the backslash and the
\* control characters escaped.
RECURSIVE JsonEscape(_)
JsonEscape(value) ==
  IF value = <<>> THEN <<>>
  ELSE (CASE Head(value) = "\"" -> <<"\\", "\"">>
          [] Head(value) = "\\" -> <<"\\", "\\">>
          [] Head(value) = "\n" -> <<"\\", "n">>
          [] Head(value) = "\r" -> <<"\\", "r">>
          [] OTHER -> <<Head(value)>>)
         \o JsonEscape(Tail(value))

JsonString(value) == <<"\"">> \o JsonEscape(value) \o <<"\"">>

\* The columns of form_submissions, in the order a select returns them.
KeyId == <<"i", "d">>
KeyName == <<"n", "a", "m", "e">>
KeyEmail == <<"e", "m", "a", "i", "l">>
KeyAdditionalInfo ==
  <<"a", "d", "d", "i", "t", "i", "o", "n", "a", "l", "I", "n", "f", "o">>
KeySubmittedAt == <<"s", "u", "b", "m", "i", "t", "t", "e", "d", "A", "t">>

\* The id column is text: the identifier written out.
IdText(id) == Digits(id)

\* Date.prototype.toJSON: the ISO form, the day the clock's.
toISOString(date) ==
  <<"D">> \o Digits(date) \o <<"T", "0", "0", ":", "0", "0", "Z">>

\* JSON.stringify(submissions, null, 2)
JsonStringify(rows) ==
  LET member(key, value) ==
        <<" ", " ", " ", " ">> \o JsonString(key) \o <<":", " ">> \o
          JsonString(value)
      object(submission) ==
        <<" ", " ", "{", "\n">> \o
          Join(<<member(KeyId, IdText(submission.id)),
                 member(KeyName, submission.name),
                 member(KeyEmail, submission.email),
                 member(KeyAdditionalInfo, submission.additionalInfo),
                 member(KeySubmittedAt, toISOString(submission.submittedAt))>>,
               <<",", "\n">>) \o
          <<"\n", " ", " ", "}">>
  IN IF rows = <<>> THEN <<"[", "]">>
     ELSE <<"[", "\n">> \o
            Join([k \in 1..Len(rows) |-> object(rows[k])], <<",", "\n">>) \o
            <<"\n", "]">>

\* app.get("/api/admin/export/json"), past isAuthenticated.
getExportJson(db, rows) ==
  Out(db, Response("json", 200, [text |-> JsonStringify(rows)]))

GetExportJson ==
  /\ \E rows \in getAllFormSubmissions(CurrentDb) :
       Serve(getExportJson(CurrentDb, rows))
  /\ UNCHANGED <<clock, wizard>>

\* Submissions, the admin's list and the exports, as time passes.
NextExport ==
  \/ \E d \in TickDays : Tick(d)
  \/ \E body \in StoredBodies : PostFormSubmissionsWithin(MaxStored, body)
  \/ GetAdminSubmissions
  \/ GetExportCsv
  \/ GetExportJson

SpecExport == Init /\ [][NextExport]_vars

----------------------------------------------------------------------------
\* The submission endpoint.

\* The step is a POST /api/form-submissions with this body.
IsSubmissionPost(body) ==
  /\ response'.kind \in {"submission", "invalid"}
  /\ PostFormSubmissionsWithin(MaxStored, body)

\* A body with a non-empty name, a valid email and a non-empty additionalInfo.
WellFormed(body) ==
  body.name # EmptyStr /\ body.email = GoodEmail /\ body.additionalInfo # EmptyStr

\* C11: a POST /api/form-submissions with a non-empty name, a valid email and
\* a non-empty additionalInfo responds 201 with the created record, appends
\* exactly one submission holding the submitted values, and its id is the id
\* of no submission stored before.
C11_ValidSubmissionCreated ==
  [][\A body \in StoredBodies :
       (WellFormed(body) /\ IsSubmissionPost(body)) =>
         LET row == response'.body
         IN /\ response'.status = 201
            /\ submissions' = Append(submissions, row)
            /\ row.name = body.name
            /\ row.email = body.email
            /\ row.additionalInfo = body.additionalInfo
            /\ row.id \notin SubmissionIdsOf(CurrentDb)
            /\ UNCHANGED <<sessions, events>>]_vars

\* C11's case: two submissions stored, the second answered 201.
C11_Witness ==
  /\ Len(submissions) = 2
  /\ response.kind = "submission"
  /\ response.status = 201
  /\ response.body = submissions[2]
  /\ submissions[1].id # submissions[2].id

\* The message of the field that fails.
FieldMessage(body) ==
  {m \in {"Please enter a valid email address", "Name is required",
          "Please provide some additional information"} :
     \/ m = "Please enter a valid email address" /\ body.email = NotAnEmail
     \/ m = "Name is required" /\ body.name = EmptyStr
     \/ m = "Please provide some additional information"
          /\ body.additionalInfo = EmptyStr}

\* C12: a POST /api/form-submissions with an invalid email, an empty name or
\* an empty additionalInfo responds 400 with the message of each failing
\* field and of no other, and leaves the store as it was.
C12_InvalidSubmissionRejected ==
  [][\A body \in StoredBodies :
       (~WellFormed(body) /\ IsSubmissionPost(body)) =>
         /\ response'.status = 400
         /\ response'.body.details = FieldMessage(body)
         /\ FieldMessage(body) # {}
         /\ UNCHANGED store]_vars

\* C12's case: a 400 for "not-an-email" alone, with a submission in the store.
C12_Witness ==
  /\ response.kind = "invalid"
  /\ response.status = 400
  /\ response.body.details = {"Please enter a valid email address"}
  /\ submissions # <<>>

\* The k-th least member of a set of numbers.
Nth(S, k) == CHOOSE x \in S : Cardinality({y \in S : y < x}) = k - 1

\* A quoted field's content with each doubled quote read as one.
RECURSIVE Undouble(_)
Undouble(v) ==
  IF v = <<>> THEN <<>>
  ELSE IF Len(v) >= 2 /\ v[1] = "\"" /\ v[2] = "\""
       THEN <<"\"">> \o Undouble(SubSeq(v, 3, Len(v)))
       ELSE <<Head(v)>> \o Undouble(Tail(v))

\* An RFC 4180 reader: the records of a text, each a sequence of fields with
\* the field's value and whether it was written in quotes.  A character is
\* outside quotes when an even number of quotes comes before it; commas and
\* CRLFs outside quotes separate fields and records.
ParseCsv(text) ==
  LET len == Len(text)
      quotes == {i \in 1..len : text[i] = "\""}
      outside(i) == Cardinality({q \in quotes : q < i}) % 2 = 0
      commas == {i \in 1..len : text[i] = "," /\ outside(i)}
      breaks == {i \in 1..(len - 1) :
                   text[i] = "\r" /\ text[i + 1] = "\n" /\ outside(i)}
      recordStarts == {1} \cup {i + 2 : i \in breaks}
      fieldStarts == recordStarts \cup {i + 1 : i \in commas}
      ends == {i - 1 : i \in commas \cup breaks} \cup {len}
      raw(from) == SubSeq(text, from, Nth({e \in ends : e >= from - 1}, 1))
      field(r) ==
        IF Len(r) >= 2 /\ r[1] = "\"" /\ r[Len(r)] = "\""
        THEN [value |-> Undouble(SubSeq(r, 2, Len(r) - 1)), quoted |-> TRUE]
        ELSE [value |-> r, quoted |-> FALSE]
      record(n) ==
        LET from == Nth(recordStarts, n)
            next == IF n = Cardinality(recordStarts) THEN len + 2
                    ELSE Nth(recordStarts, n + 1)
            starts == {f \in fieldStarts : f >= from /\ f < next}
        IN [f \in 1..Cardinality(starts) |-> field(raw(Nth(starts, f)))]
  IN [n \in 1..Cardinality(recordStarts) |-> record(n)]

\* A JSON string's content with its escapes read back.
RECURSIVE JsonUnescape(_)
JsonUnescape(v) ==
  IF v = <<>> THEN <<>>
  ELSE IF Len(v) >= 2 /\ v[1] = "\\"
       THEN <<(CASE v[2] = "n" -> "\n" [] v[2] = "r" -> "\r" [] OTHER -> v[2])>>
              \o JsonUnescape(SubSeq(v, 3, Len(v)))
       ELSE <<Head(v)>> \o JsonUnescape(Tail(v))

\* A JSON reader for an array of objects whose values are strings: the
\* objects in order, each a sequence of [key, value] members.  A quote
\* delimits a string unless an odd number of backslashes runs up to it; the
\* braces outside strings delimit the objects.
ParseJson(text) ==
  LET len == Len(text)
      run(i) == Nth({j \in 0..(i - 1) :
                       /\ \A m \in 1..j : text[i - m] = "\\"
                       /\ (j = i - 1 \/ text[i - j - 1] # "\\")}, 1)
      quotes == {i \in 1..len : text[i] = "\"" /\ run(i) % 2 = 0}
      outside(i) == Cardinality({q \in quotes : q < i}) % 2 = 0
      opens == {i \in 1..len : text[i] = "{" /\ outside(i)}
      closes == {i \in 1..len : text[i] = "}" /\ outside(i)}
      object(n) ==
        LET within == {q \in quotes :
                         q > Nth(opens, n) /\ q < Nth(closes, n)}
            string(m) == JsonUnescape(SubSeq(text, Nth(within, 2 * m - 1) + 1,
                                             Nth(within, 2 * m) - 1))
        IN [m \in 1..(Cardinality(within) \div 4) |->
              [key |-> string(2 * m - 1), value |-> string(2 * m)]]
  IN IF Cardinality(opens) # Cardinality(closes) THEN <<>>
     ELSE [n \in 1..Cardinality(opens) |-> object(n)]

\* The values an object has under a key.
Member(object, key) ==
  {object[k].value : k \in {m \in 1..Len(object) : object[m].key = key}}

\* The ways to go through the stored submissions once each, latest first.
LatestFirst ==
  {p \in Orders(Len(submissions)) :
     \A k \in 1..(Len(submissions) - 1) :
       submissions[p[k]].submittedAt >= submissions[p[k + 1]].submittedAt}

\* C18: the admin list, the CSV export and the JSON export each go through
\* the whole store, one entry per submission, latest submittedAt first, and
\* the ids read back from the JSON export are the ids of the admin list,
\* which are the ids of the store.
C18_ExportsEnumerateStore ==
  LET n == Len(submissions)
      ids == {IdText(submissions[k].id) : k \in 1..n}
  IN /\ response.kind = "submissions" =>
          /\ \E p \in LatestFirst :
               response.body.rows = [k \in 1..n |-> submissions[p[k]]]
          /\ {IdText(response.body.rows[k].id) :
                k \in 1..Len(response.body.rows)} = ids
     /\ response.kind = "csv" =>
          LET parsed == ParseCsv(response.body.text)
          IN /\ Len(parsed) = n + 1
             /\ \E p \in LatestFirst : \A k \in 1..n :
                  /\ Len(parsed[k + 1]) >= 5
                  /\ parsed[k + 1][1].value = submissions[p[k]].name
                  /\ parsed[k + 1][2].value = submissions[p[k]].email
                  /\ parsed[k + 1][5].value = submissions[p[k]].additionalInfo
     /\ response.kind = "json" =>
          LET parsed == ParseJson(response.body.text)
          IN /\ Len(parsed) = n
             /\ \E p \in LatestFirst : \A k \in 1..n :
                  /\ Member(parsed[k], KeyId) = {IdText(submissions[p[k]].id)}
                  /\ Member(parsed[k], KeyName) = {submissions[p[k]].name}
                  /\ Member(parsed[k], KeyEmail) = {submissions[p[k]].email}
                  /\ Member(parsed[k], KeyAdditionalInfo) =
                       {submissions[p[k]].additionalInfo}
             /\ UNION {Member(parsed[k], KeyId) : k \in 1..Len(parsed)} = ids

\* The JSON export of two submissions, the later one stored second, with a
\* quote and a line feed to escape.
C18_Witness ==
  /\ response.kind = "json"
  /\ Len(submissions) = 2
  /\ submissions[1].submittedAt < submissions[2].submittedAt
  /\ submissions[1].id # submissions[2].id
  /\ submissions[2].additionalInfo = QuoteLfStr

\* C19: read back by RFC 4180, the CSV export is the header record followed
\* by one record of six fields per submission, every field the stored string
\* (the empty string for a value the row has not, the formatted date for
\* submittedAt), and a field is written in quotes exactly when its value
\* holds a comma, a quote, a carriage return or a line feed.
C19_CsvRoundTrips ==
  response.kind = "csv" =>
    LET parsed == ParseCsv(response.body.text)
        n == Len(submissions)
        stored(row, name) == IF name \in DOMAIN row THEN row[name] ELSE EmptyStr
        special(v) == \E k \in 1..Len(v) : v[k] \in {",", "\"", "\r", "\n"}
    IN /\ Len(parsed) = n + 1
       /\ [k \in 1..Len(parsed[1]) |-> parsed[1][k].value] = headers
       /\ \E p \in Orders(n) : \A k \in 1..n :
            LET rec == parsed[k + 1]
                row == submissions[p[k]]
            IN /\ Len(rec) = 6
               /\ rec[1].value = stored(row, "name")
               /\ rec[2].value = stored(row, "email")
               /\ rec[3].value = stored(row, "referralSource")
               /\ rec[4].value = stored(row, "referralSourceOther")
               /\ rec[5].value = stored(row, "additionalInfo")
               /\ rec[6].value = formatDate(row.submittedAt)
       /\ \A k \in 1..Len(parsed) : \A f \in 1..Len(parsed[k]) :
            parsed[k][f].quoted <=> special(parsed[k][f].value)

\* The CSV export of a store holding a comma, a quote, a line feed and a
\* carriage return.
C19_Witness ==
  /\ response.kind = "csv"
  /\ \E k \in 1..Len(submissions) :
       /\ submissions[k].name = CommaQuoteStr
       /\ submissions[k].additionalInfo = QuoteLfStr
  /\ \E k \in 1..Len(submissions) : submissions[k].additionalInfo = CrStr

----------------------------------------------------------------------------
\* The write endpoints, each request handled on its own, and the catch blocks
\* of the handlers.

Endpoints ==
  {"form-submissions", "admin-submissions", "session-start", "event",
   "session-complete", "analytics", "export-csv", "export-json"}

\* The message of an endpoint's catch block.
FailureMessage(endpoint) ==
  CASE endpoint = "form-submissions" -> "Failed to create form submission"
    [] endpoint = "admin-submissions" -> "Failed to fetch form submissions"
    [] endpoint = "session-start" -> "Failed to create analytics session"
    [] endpoint = "event" -> "Failed to track analytics event"
    [] endpoint = "session-complete" -> "Failed to complete analytics session"
    [] endpoint = "analytics" -> "Failed to fetch analytics"
    [] endpoint = "export-csv" -> "Failed to export CSV"
    [] OTHER -> "Failed to export JSON"

\* catch (error) { console.error(...); res.status(500).json({ error }) }
Caught(db, endpoint) ==
  Out(db, Response("error", 500, Error(FailureMessage(endpoint))))

\* A request passes its handler's checks and the storage call throws: the
\* statement fails as a whole and the catch block answers.
StorageThrows(endpoint) ==
  /\ Serve(Caught(CurrentDb, endpoint))
  /\ UNCHANGED <<clock, wizard>>

ApiSessionIdInputs == {WizardSession, ""}
ApiStepInputs == {0, UNDEFINED}
ApiEventTypeInputs == {"view", ""}
ApiBodies ==
  {[name |-> WordStr, email |-> e, additionalInfo |-> WordStr] :
     e \in {NotAnEmail, GoodEmail}}

\* Requests sent straight to the write endpoints, and storage failures.
NextApi ==
  \/ \E body \in ApiBodies : PostFormSubmissions(body)
  \/ \E sessionId \in ApiSessionIdInputs : PostSessionStart(sessionId)
  \/ \E sessionId \in ApiSessionIdInputs, step \in ApiStepInputs,
        eventType \in ApiEventTypeInputs : PostEvent(sessionId, step, eventType)
  \/ \E sessionId \in ApiSessionIdInputs, submissionId \in SubmissionIdInputs,
        timeToComplete \in TimeToCompleteInputs :
       PatchSessionComplete(sessionId, submissionId, timeToComplete)
  \/ \E endpoint \in Endpoints : StorageThrows(endpoint)

SpecApi == Init /\ [][NextApi]_vars

\* The step is a request to the endpoint, with these fields.
IsSessionStart(sessionId) ==
  response'.kind \in {"session", "error"} /\ PostSessionStart(sessionId)
IsEvent(sessionId, step, eventType) ==
  response'.kind \in {"event", "error"} /\ PostEvent(sessionId, step, eventType)
IsSessionComplete(sessionId, submissionId, timeToComplete) ==
  /\ response'.kind \in {"session", "error"}
  /\ PatchSessionComplete(sessionId, submissionId, timeToComplete)

\* C13: session-start, event and session-complete respond 400 and write
\* nothing when sessionId, eventType or submissionId is absent or empty or
\* step or timeToComplete is undefined; a request with every field present is
\* not answered 400, a step of 0 and a timeToComplete of 0 being present.
C13_MissingFieldRejected ==
  [][ /\ \A sessionId \in ApiSessionIdInputs :
          IsSessionStart(sessionId) =>
            IF sessionId = ""
            THEN response'.status = 400 /\ UNCHANGED store
            ELSE response'.status # 400
      /\ \A sessionId \in ApiSessionIdInputs, step \in ApiStepInputs,
            eventType \in ApiEventTypeInputs :
          IsEvent(sessionId, step, eventType) =>
            IF sessionId = "" \/ step = UNDEFINED \/ eventType = ""
            THEN response'.status = 400 /\ UNCHANGED store
            ELSE /\ response'.status = 201
                 /\ response'.body.step = step
                 /\ events' # events
      /\ \A sessionId \in ApiSessionIdInputs, submissionId \in SubmissionIdInputs,
            timeToComplete \in TimeToCompleteInputs :
          IsSessionComplete(sessionId, submissionId, timeToComplete) =>
            IF \/ sessionId = ""
               \/ submissionId = UNDEFINED
               \/ timeToComplete = UNDEFINED
            THEN response'.status = 400 /\ UNCHANGED store
            ELSE response'.status # 400]_vars

\* C13's case: an event at step 0 and a completion in 0 seconds were accepted
\* and stored, and the last request was answered 400.
C13_Witness ==
  /\ response.status = 400
  /\ response.kind = "error"
  /\ \E e \in DOMAIN events : e.step = 0
  /\ \E r \in sessions : r.timeToComplete = 0

\* C14: a response of 500 carries the fixed message of an endpoint's catch
\* block and nothing else, and the request it answers leaves the store as it
\* was; a failing session-start or session-complete carries the message of
\* its own endpoint.
C14_FailureIsGeneric ==
  [][ /\ response'.status = 500 =>
          /\ UNCHANGED store
          /\ \E endpoint \in Endpoints :
               response'.body = Error(FailureMessage(endpoint))
      /\ \A sessionId \in ApiSessionIdInputs :
           (IsSessionStart(sessionId) /\ response'.status = 500) =>
             response'.body = Error(FailureMessage("session-start"))
      /\ \A sessionId \in ApiSessionIdInputs, submissionId \in SubmissionIdInputs,
            timeToComplete \in TimeToCompleteInputs :
           (/\ IsSessionComplete(sessionId, submissionId, timeToComplete)
            /\ response'.status = 500) =>
             response'.body = Error(FailureMessage("session-complete"))]_vars

\* C14's case: a 500 for a session-complete whose submissionId references no
\* stored submission, the session left as it was.
C14_Witness ==
  /\ response.status = 500
  /\ response.body = Error(FailureMessage("session-complete"))
  /\ submissions = <<>>
  /\ \E r \in sessions : r.completedAt = NULL

\* C17: a session-complete with sessionId, submissionId and timeToComplete
\* present responds 200 with a session record of that sessionId, completedAt
\* set and submissionId and timeToComplete as sent, whether or not the
\* session was started before.
C17_SessionCompleteReturnsSession ==
  [][\A sessionId \in {WizardSession}, submissionId \in 1..(MaxSubmissions + 1),
        timeToComplete \in {0, 3} :
       IsSessionComplete(sessionId, submissionId, timeToComplete) =>
         /\ response'.status = 200
         /\ "sessionId" \in DOMAIN response'.body
         /\ response'.body.sessionId = sessionId
         /\ response'.body.completedAt # NULL
         /\ response'.body.submissionId = submissionId
         /\ response'.body.timeToComplete = timeToComplete]_vars

\* The event rows whose sessionId has no session row.
Orphans == {e \in DOMAIN events : \A r \in sessions : r.sessionId # e.sessionId}

\* C15: an event for a sessionId that has no session row is answered 201 and
\* appended to the events, and a getAnalytics call over a store with such
\* events still returns an aggregate.
C15_OrphanEventTolerated ==
  [][ /\ \A sessionId \in SessionIds, step \in StepInputs \ {UNDEFINED},
            eventType \in EventTypeInputs \ {""} :
          (/\ \A r \in sessions : r.sessionId # sessionId
           /\ IsEvent(sessionId, step, eventType)) =>
            /\ response'.status = 201
            /\ response'.body = [sessionId |-> sessionId, step |-> step,
                                 eventType |-> eventType]
            /\ events' = events (+) SetToBag({response'.body})
            /\ UNCHANGED <<submissions, sessions>>
      /\ \A tp \in TimePeriodInputs :
          (Orphans # {} /\ IsAnalyticsCall(tp)) =>
            /\ response'.status = 200
            /\ Len(response'.body.dropOffByStep) = LastAnalyticsStep + 1]_vars

\* C15's case: an aggregate returned over a store whose events all belong to
\* a session that was never started.
C15_Witness ==
  /\ IsAnalytics
  /\ response.status = 200
  /\ Orphans # {}
  /\ sessions = {}

----------------------------------------------------------------------------
\* The endpoints that write, the aggregator reading between the writes, and
\* storage failures, as time passes.
WriteEndpoints ==
  {"form-submissions", "session-start", "event", "session-complete"}
StoreTimeInputs == {3, UNDEFINED}

NextStore ==
  \/ \E d \in TickDays : Tick(d)
  \/ \E body \in ApiBodies : PostFormSubmissions(body)
  \/ \E sessionId \in ApiSessionIdInputs : PostSessionStart(sessionId)
  \/ \E sessionId \in ApiSessionIdInputs, step \in ApiStepInputs,
        eventType \in ApiEventTypeInputs : PostEvent(sessionId, step, eventType)
  \/ \E sessionId \in ApiSessionIdInputs, submissionId \in SubmissionIdInputs,
        timeToComplete \in StoreTimeInputs :
       PatchSessionComplete(sessionId, submissionId, timeToComplete)
  \/ GetAdminAnalytics("all")
  \/ \E endpoint \in WriteEndpoints : StorageThrows(endpoint)

SpecStore == Init /\ [][NextStore]_vars

\* C21: a step of the API keeps every submission row and every event row as
\* it is, keeps every session row with its sessionId and startedAt, and a
\* request answered with a created event adds exactly that one event row and
\* nothing else.
C21_RecordsKept ==
  [][ /\ Len(submissions') >= Len(submissions)
      /\ SubSeq(submissions', 1, Len(submissions)) = submissions
      /\ events \sqsubseteq events'
      /\ \A r \in sessions :
           \E q \in sessions' :
             q.sessionId = r.sessionId /\ q.startedAt = r.startedAt
      /\ Cardinality(sessions') >= Cardinality(sessions)
      /\ \A sessionId \in ApiSessionIdInputs, step \in ApiStepInputs,
            eventType \in ApiEventTypeInputs :
           (IsEvent(sessionId, step, eventType) /\ response'.status = 201) =>
             /\ events' = events (+) SetToBag({response'.body})
             /\ UNCHANGED <<submissions, sessions>>
      /\ BagCardinality(events') # BagCardinality(events) =>
           response'.kind = "event" /\ response'.status = 201]_vars

\* C21's case: a session started on one day and completed on a later one,
\* with a submission and two events stored before the completion.
C21_Witness ==
  /\ \E r \in sessions : r.completedAt # NULL /\ r.completedAt > r.startedAt
  /\ Len(submissions) >= 1
  /\ BagCardinality(events) >= 2
  /\ response.kind = "session"
  /\ response.status = 200

----------------------------------------------------------------------------
\* GET /api/admin/analytics one query at a time: getAnalytics awaits each of
\* its queries, no transaction spans them, and the server handles other
\* requests between two of them.

\* The call starts: dateFilter is set and the sessions are counted.
AwaitSessionsQuery(tp) ==
  /\ call.pc = "idle"
  /\ call' = [NoCall EXCEPT
                !.pc = "submissionsQuery",
                !.dateFilter = getDateFilter(clock, tp),
                !.totalSessions = sessionsQuery(CurrentDb,
                                                getDateFilter(clock, tp))]
  /\ UNCHANGED <<clock, store, timePeriod, dateFilter, response, wizard>>

AwaitSubmissionsQuery ==
  /\ call.pc = "submissionsQuery"
  /\ call' = [call EXCEPT
                !.pc = "avgTimeQuery",
                !.totalSubmissions = submissionsQuery(CurrentDb,
                                                      call.dateFilter)]
  /\ UNCHANGED <<clock, store, timePeriod, dateFilter, response, wizard>>

AwaitAvgTimeQuery ==
  /\ call.pc = "avgTimeQuery"
  /\ call' = [call EXCEPT
                !.pc = "viewedQuery",
                !.avg = avgTimeQuery(CurrentDb, call.dateFilter)]
  /\ UNCHANGED <<clock, store, timePeriod, dateFilter, response, wizard>>

AwaitViewedQuery ==
  /\ call.pc = "viewedQuery"
  /\ call' = [call EXCEPT
                !.pc = "continuedQuery",
                !.viewed = viewRows(CurrentDb, call.dateFilter, call.step)]
  /\ UNCHANGED <<clock, store, timePeriod, dateFilter, response, wizard>>

\* The second query of a step; after the last step the call returns and the
\* route answers.
AwaitContinuedQuery ==
  /\ call.pc = "continuedQuery"
  /\ LET continued == continuedQuery(CurrentDb, call.dateFilter, call.step)
         dropOffByStep ==
           Append(call.dropOffByStep,
                  dropOffEntryOf(call.step, call.viewed, continued))
     IN IF call.step < LastAnalyticsStep
        THEN /\ call' = [call EXCEPT !.pc = "viewedQuery",
                                     !.step = call.step + 1,
                                     !.dropOffByStep = dropOffByStep]
             /\ UNCHANGED response
        ELSE /\ call' = NoCall
             /\ response' =
                  Response("analytics", 200,
                    [totalSessions |-> call.totalSessions,
                     totalSubmissions |-> call.totalSubmissions,
                     completionRate |->
                       completionRateOf(call.totalSessions,
                                        call.totalSubmissions),
                     averageTimeToComplete |->
                       averageTimeToCompleteOf(call.avg),
                     dropOffByStep |-> dropOffByStep])
  /\ UNCHANGED <<clock, store, timePeriod, dateFilter, wizard>>

\* One analytics call at a time, and the writes of sessions between its
\* queries.
NextInterleaved ==
  \/ \E tp \in {"all", "7days"} : AwaitSessionsQuery(tp)
  \/ AwaitSubmissionsQuery
  \/ AwaitAvgTimeQuery
  \/ AwaitViewedQuery
  \/ AwaitContinuedQuery
  \/ PostFormSubmissions([name |-> WordStr, email |-> GoodEmail,
                          additionalInfo |-> WordStr])
  \/ \E sessionId \in SessionIds : PostSessionStart(sessionId)
  \/ \E sessionId \in SessionIds, submissionId \in 1..MaxSubmissions :
       PatchSessionComplete(sessionId, submissionId, 3)

SpecInterleaved == Init /\ [][NextInterleaved]_vars

\* C26: the totals an analytics call returns have totalSubmissions at most
\* totalSessions and a completionRate from 0 to 100, whatever session-start
\* and session-complete requests were handled between its queries.
C26_TotalsConsistent ==
  response.kind = "analytics" =>
    /\ response.body.totalSubmissions <= response.body.totalSessions
    /\ InPercentRange(response.body.completionRate)

\* C27: when every stored session started inside the window, an aggregate
\* computed with the window has the totals and the dropOffByStep entries of
\* the aggregate computed with no window over the same store, events whose
\* sessionId has no session row included.
C27_WindowOverAllSessions ==
  (/\ IsAnalytics
   /\ dateFilter # NoFilter
   /\ \A r \in sessions : r.startedAt >= dateFilter[1]) =>
    LET unwindowed == getAnalytics(CurrentDb, clock, "all")
    IN /\ response.body.totalSessions = unwindowed.totalSessions
       /\ response.body.totalSubmissions = unwindowed.totalSubmissions
       /\ response.body.completionRate = unwindowed.completionRate
       /\ response.body.averageTimeToComplete =
            unwindowed.averageTimeToComplete
       /\ response.body.dropOffByStep = unwindowed.dropOffByStep

----------------------------------------------------------------------------
\* The routes and their middleware: a request comes with or without a login
\* session of the identity provider.

AdminEndpoints == {"admin-submissions", "analytics", "export-csv", "export-json"}

\* The JSON export registered without isAuthenticated.
Middleware_ExportOpen(endpoint) ==
  IF endpoint \in AdminEndpoints \ {"export-json"}
  THEN {"isAuthenticated"} ELSE {}

\* The middleware a route is registered with, between its path and handler.
Middleware(endpoint) ==
  IF endpoint \in AdminEndpoints THEN {"isAuthenticated"} ELSE {}

\* What isAuthenticated (server/replitAuth.ts) answers to a request without a
\* login session, in place of calling the handler: the way to the login flow.
Unauthenticated == Response("login", 302, Error("Unauthorized"))

\* The handler of a route.
Handle(endpoint) ==
  CASE endpoint = "admin-submissions" -> GetAdminSubmissions
    [] endpoint = "analytics" -> GetAdminAnalytics("all")
    [] endpoint = "export-csv" -> GetExportCsv
    [] endpoint = "export-json" -> GetExportJson
    [] endpoint = "form-submissions" ->
         \E body \in ApiBodies : PostFormSubmissions(body)
    [] endpoint = "session-start" ->
         \E sessionId \in ApiSessionIdInputs : PostSessionStart(sessionId)
    [] endpoint = "event" ->
         \E sessionId \in ApiSessionIdInputs, step \in ApiStepInputs,
            eventType \in ApiEventTypeInputs :
           PostEvent(sessionId, step, eventType)
    [] OTHER ->
         \E sessionId \in ApiSessionIdInputs,
            submissionId \in SubmissionIdInputs,
            timeToComplete \in StoreTimeInputs :
           PatchSessionComplete(sessionId, submissionId, timeToComplete)

\* Express runs a route's middleware, then its handler if the middleware
\* called next().
Route(endpoint, authenticated) ==
  IF "isAuthenticated" \in Middleware(endpoint) /\ ~authenticated
  THEN /\ Serve(Out(CurrentDb, Unauthenticated))
       /\ UNCHANGED <<clock, wizard>>
  ELSE Handle(endpoint)

\* Requests to every route, with and without a login session.
NextAuth ==
  \E endpoint \in AdminEndpoints \cup WriteEndpoints,
     authenticated \in BOOLEAN : Route(endpoint, authenticated)

SpecAuth == Init /\ [][NextAuth]_vars

\* The kinds of response that carry submissions or analytics.
DataKinds == {"submissions", "analytics", "csv", "json"}

\* C22: a request without a login session to an admin route is answered by
\* isAuthenticated alone, with no submission or analytics data and the store
\* untouched, and a request without a login session to a write route is
\* handled as one with a login session is.
C22_AdminNeedsLogin ==
  [][ /\ \A endpoint \in AdminEndpoints :
           (response'.kind \in DataKinds \cup {"login"}
              /\ Route(endpoint, FALSE)) =>
             /\ response' = Unauthenticated
             /\ UNCHANGED store
      /\ \A endpoint \in WriteEndpoints :
           (response'.kind \notin DataKinds /\ Route(endpoint, FALSE)) =>
             /\ response'.kind # "login"
             /\ Route(endpoint, TRUE)]_vars

\* C22's case: a request without a login session was turned away while the
\* store held a submission, a session and an event to show.
C22_Witness ==
  /\ response = Unauthenticated
  /\ submissions # <<>>
  /\ sessions # {}
  /\ events # EmptyBag

----------------------------------------------------------------------------
\* The form wizard with its requests in flight: trackAnalytics and apiRequest
\* send a request, and the server handles it some time later; requests that
\* were not awaited are handled in any order.

\* A request of the wizard; data is the formData a submission carries.
NoData == [f \in Fields |-> EmptyStr]
Request(endpoint, step, eventType, data) ==
  [endpoint |-> endpoint, sessionId |-> WizardSession, step |-> step,
   eventType |-> eventType, data |-> data]
SessionStartRequest == Request("session-start", UNDEFINED, "", NoData)
EventRequest(step, eventType) == Request("event", step, eventType, NoData)
\* submitForm's awaited chain: the submit event, the submission, the completion.
SubmitRequest(step, data) == Request("submit", step, "submit", data)
Sent(net, req) == net (+) SetToBag({req})

RaceFieldInputs == {GoodEmail}

\* Mount: the session-start effect and the view effect both send, neither
\* awaiting the other.
Mount ==
  /\ page = "none"
  /\ page' = "form"
  /\ sessionStartTime' = clock
  /\ network' = Sent(Sent(network, SessionStartRequest),
                     EventRequest(currentStep, "view"))
  /\ UNCHANGED <<clock, server, currentStep, formData, errors, touched,
                 isSubmitting>>

\* goToNext: the "next" event is sent and not awaited; on the last step
\* submitForm sets isSubmitting and sends its chain of requests.
goToNextAsync ==
  /\ page = "form"
  /\ touched' = [touched EXCEPT ![currentQuestion] = TRUE]
  /\ errors' = [errors EXCEPT ![currentQuestion] =
                  validateField(currentQuestion, currentValue)]
  /\ IF validateField(currentQuestion, currentValue) # NoError
     THEN UNCHANGED <<currentStep, isSubmitting, network>>
     ELSE /\ BagCardinality(network) + 2 <= MaxInFlight
          /\ BagCardinality(network) + BagCardinality(events) + 2
               <= MaxWizardEvents
          /\ IF currentStep < NumQuestions - 1
             THEN /\ currentStep' = currentStep + 1
                  /\ network' = Sent(Sent(network,
                                          EventRequest(currentStep, "next")),
                                     EventRequest(currentStep + 1, "view"))
                  /\ isSubmitting' = isSubmitting
             ELSE /\ currentStep' = currentStep
                  /\ network' = Sent(Sent(network,
                                          EventRequest(currentStep, "next")),
                                     SubmitRequest(currentStep, formData))
                  /\ isSubmitting' = TRUE
  /\ UNCHANGED <<clock, server, page, formData, sessionStartTime>>

\* goToNext, by the button or the keyboard, both disabled while isSubmitting.
goToNextSending == ~isSubmitting /\ goToNextAsync

\* goToPrevious: it does nothing on step 0.
goToPreviousAsync ==
  /\ page = "form"
  /\ IF currentStep > 0
     THEN /\ BagCardinality(network) + 2 <= MaxInFlight
          /\ BagCardinality(network) + BagCardinality(events) + 2
               <= MaxWizardEvents
          /\ currentStep' = currentStep - 1
          /\ network' = Sent(Sent(network, EventRequest(currentStep, "back")),
                             EventRequest(currentStep - 1, "view"))
     ELSE UNCHANGED <<currentStep, network>>
  /\ UNCHANGED <<clock, server, page, formData, errors, touched, isSubmitting,
                 sessionStartTime>>

\* goToPrevious, by the button or the keyboard, both disabled while
\* isSubmitting; the button is rendered from step 1 on.
goToPreviousSending == ~isSubmitting /\ currentStep > 0 /\ goToPreviousAsync

\* The server handles one request in flight.
Deliver(req) ==
  /\ BagIn(req, network)
  /\ network' = network (-) SetToBag({req})
  /\ CASE req.endpoint = "session-start" ->
            /\ Serve(postSessionStart(CurrentDb, clock,
                                      [sessionId |-> req.sessionId]))
            /\ UNCHANGED <<page, isSubmitting>>
       [] req.endpoint = "event" ->
            /\ Serve(postEvent(CurrentDb, [sessionId |-> req.sessionId,
                                           step |-> req.step,
                                           eventType |-> req.eventType]))
            /\ UNCHANGED <<page, isSubmitting>>
       [] OTHER ->
            /\ Len(submissions) < MaxSubmissions
            /\ \E elapsed \in ElapsedSeconds :
                 LET done == submitFormOf(CurrentDb, elapsed, req.step, req.data)
                 IN Serve(done.out) /\ page' = done.page
            /\ isSubmitting' = FALSE
  /\ UNCHANGED <<clock, currentStep, formData, errors, touched,
                 sessionStartTime>>

\* One visitor fills in the wizard while its requests travel.
NextRace ==
  \/ Mount
  \/ \E value \in RaceFieldInputs : handleFieldChange(value)
  \/ goToNextSending
  \/ goToPreviousSending
  \/ \E req \in DOMAIN network : Deliver(req)

SpecRace == Init /\ [][NextRace]_vars

\* C16: every stored event row has a session row with the same sessionId,
\* however the server interleaves the requests the wizard sends.
C16_EventsReferenceSession ==
  \A e \in DOMAIN events : \E r \in sessions : r.sessionId = e.sessionId

----------------------------------------------------------------------------
\* The visitor at the keyboard and the buttons.

Keys == {"Enter", "Ctrl+Enter", "Escape"}

\* handleKeyDown with Escape going forward.
handleKeyDown_EscapeForward(key) ==
  /\ page = "form"
  /\ IF isSubmitting THEN UNCHANGED vars
     ELSE CASE key = "Ctrl+Enter" ->
                 IF currentStep = NumQuestions - 1
                 THEN goToNextAsync
                 ELSE UNCHANGED vars
            [] key # "Ctrl+Enter"
                 /\ questionType(currentQuestion) = "textarea" ->
                 IF key = "Escape" THEN goToNextAsync ELSE UNCHANGED vars
            [] OTHER -> goToNextAsync

\* handleKeyDown, the window's keydown listener.
handleKeyDown(key) ==
  /\ page = "form"
  /\ IF isSubmitting THEN UNCHANGED vars
     ELSE CASE key = "Ctrl+Enter" ->
                 IF currentStep = NumQuestions - 1
                 THEN goToNextAsync
                 ELSE UNCHANGED vars
            [] key # "Ctrl+Enter"
                 /\ questionType(currentQuestion) = "textarea" ->
                 IF key = "Escape" THEN goToPreviousAsync ELSE UNCHANGED vars
            [] key = "Enter"
                 /\ questionType(currentQuestion) # "textarea" ->
                 goToNextAsync
            [] OTHER -> goToPreviousAsync

\* The Continue / Submit button left enabled while isSubmitting.
clickContinue_NeverDisabled ==
  /\ page = "form"
  /\ goToNextAsync


\* A click on the Continue / Submit button: disabled while isSubmitting.
clickContinue ==
  /\ page = "form"
  /\ IF isSubmitting THEN UNCHANGED vars ELSE goToNextAsync

\* A click on the Back button: rendered from step 1 on, disabled while
\* isSubmitting.
clickBack ==
  /\ page = "form"
  /\ currentStep > 0
  /\ IF isSubmitting THEN UNCHANGED vars ELSE goToPreviousAsync

\* What the visitor types: nothing, a blank, a word, an email address.
TypedInputs == {EmptyStr, BlankStr, WordStr, GoodEmail}

\* One visitor at the wizard, with the keyboard and the buttons, while the
\* requests travel.
NextForm ==
  \/ Mount
  \/ \E value \in TypedInputs : handleFieldChange(value)
  \/ handleFieldBlur
  \/ \E key \in Keys : handleKeyDown(key)
  \/ clickContinue
  \/ clickBack
  \/ \E req \in DOMAIN network : Deliver(req)

SpecForm == Init /\ [][NextForm]_vars

\* A value the wizard is meant to accept for a field: anything for the
\* optional referral fields, otherwise a value with a character that is not
\* white space, in email format for the email.
Acceptable(field, value) ==
  \/ field \in {"referralSource", "referralSourceOther"}
  \/ /\ \E k \in 1..Len(value) : value[k] \notin {" ", "\t", "\n", "\r"}
     /\ field = "email" => value = GoodEmail

\* The step is a request for Next: the Continue button, Enter outside the
\* textarea, or Ctrl+Enter on the last step.
IsNext ==
  /\ page = "form"
  /\ ~isSubmitting
  /\ \/ clickContinue
     \/ questionType(currentQuestion) # "textarea" /\ handleKeyDown("Enter")
     \/ currentStep = NumQuestions - 1 /\ handleKeyDown("Ctrl+Enter")

\* The step is a request for Back: the Back button or Escape.
IsBack ==
  /\ page = "form"
  /\ ~isSubmitting
  /\ clickBack \/ handleKeyDown("Escape")

\* The submission requests in flight.
SubmitsInFlight(net) ==
  BagCardinality([r \in {q \in DOMAIN net : q.endpoint = "submit"} |-> net[r]])

\* C23: currentStep stays within 0..N-1; a Next with an acceptable field
\* moves from a step before the last to the next step, and on the last step
\* sends the submission and stays; a Back moves one step back, and does
\* nothing on step 0; nothing else changes currentStep.
C23_LinearWizard ==
  [][ /\ currentStep' \in 0..(NumQuestions - 1)
      /\ (IsNext /\ Acceptable(currentQuestion, currentValue)) =>
           IF currentStep < NumQuestions - 1
           THEN /\ currentStep' = currentStep + 1
                /\ SubmitsInFlight(network') = SubmitsInFlight(network)
           ELSE /\ currentStep' = currentStep
                /\ isSubmitting'
                /\ network' (-) network =
                     SetToBag({EventRequest(currentStep, "next"),
                               SubmitRequest(currentStep, formData)})
      /\ IsBack =>
           IF currentStep > 0
           THEN currentStep' = currentStep - 1
           ELSE UNCHANGED vars
      /\ currentStep' # currentStep => IsNext \/ IsBack]_vars

\* C23's case: the visitor went forward step by step to the last one, every
\* view on the way recorded, and the submission is on its way.
C23_Witness ==
  /\ currentStep = NumQuestions - 1
  /\ isSubmitting
  /\ SubmitsInFlight(network) = 1
  /\ \A step \in 0..(NumQuestions - 1) :
       \E e \in DOMAIN events : e.step = step /\ e.eventType = "view"

\* The current field is empty or, on the email step, not in email format.
EmptyOrNotEmail ==
  \/ currentValue = EmptyStr
  \/ currentQuestion = "email" /\ currentValue # GoodEmail

\* A Next that was blocked: the step and the requests in flight are as they
\* were, and the field is touched and has its error message.
Blocked ==
  /\ currentStep' = currentStep
  /\ network' = network
  /\ ~isSubmitting'
  /\ touched'[currentQuestion]
  /\ errors'[currentQuestion] # NoError

\* C24 as stated: a Next on any step whose field is empty or, on the email
\* step, not in email format, is blocked.
C24_InvalidFieldBlocks ==
  [][(IsNext /\ EmptyOrNotEmail) => Blocked]_vars

\* The steps whose field is validated: every step but the referral's.
RequiredSteps == {"name", "email", "additionalInfo"}

\* C24 amended: a Next on a required step (name, email, additionalInfo)
\* whose field is empty or, on the email step, not in email format, is
\* blocked.
C24_InvalidRequiredFieldBlocks ==
  [][(IsNext /\ currentQuestion \in RequiredSteps /\ EmptyOrNotEmail) =>
       Blocked]_vars

\* C24's case: on the email step a Next with a word that is no email address
\* left the visitor there with the message, nothing but the requests of the
\* way there sent.
C24_Witness ==
  /\ currentStep = 1
  /\ formData.email = WordStr
  /\ touched.email
  /\ errors.email = "Please enter a valid email address"
  /\ \A r \in DOMAIN network : r.step = 0 \/ r.eventType = "view"
  /\ \A e \in DOMAIN events : e.step = 0 \/ e.eventType = "view"

\* C28: the fields of the required steps before currentStep are acceptable,
\* and so are the name, the email and the additionalInfo of every submission
\* the wizard has sent.
C28_EarlierStepsValid ==
  /\ \A k \in 1..currentStep :
       allQuestions[k] \in RequiredSteps =>
         Acceptable(allQuestions[k], formData[allQuestions[k]])
  /\ \A r \in DOMAIN network :
       r.endpoint = "submit" =>
         \A field \in RequiredSteps : Acceptable(field, r.data[field])

\* C28's case: a submission is on its way with the fields as they were when
\* it was sent, the visitor having blanked the last field since.
C28_Witness ==
  /\ \E r \in DOMAIN network :
       r.endpoint = "submit" /\ r.data.additionalInfo # formData.additionalInfo
  /\ formData.additionalInfo = BlankStr
  /\ currentStep = NumQuestions - 1

----------------------------------------------------------------------------
\* The wizard when requests fail: the storage throws in a handler, the
\* handler answers 500 and apiRequest throws in the wizard.

\* submitForm's chain with trackAnalytics letting its error through: a failed
\* session-complete request reaches the catch block.
submitFormWith_CompleteRequired(db, elapsed, step, data, failing) ==
  LET tracked == IF "event" \in failing THEN Caught(db, "event")
                 ELSE postEvent(db, EventBody(step, "submit"))
      posted == IF "form-submissions" \in failing
                THEN Caught(tracked.db, "form-submissions")
                ELSE postFormSubmissions(tracked.db, clock, data)
      timeToComplete == (clock - sessionStartTime) * SecondsPerDay + elapsed
      completed == IF "session-complete" \in failing
                   THEN Caught(posted.db, "session-complete")
                   ELSE patchSessionComplete(posted.db, clock,
                          [sessionId |-> WizardSession,
                           submissionId |-> posted.response.body.id,
                           timeToComplete |-> timeToComplete])
  IN IF ResOk(posted.response)
     THEN [out |-> completed,
           page |-> IF ResOk(completed.response) THEN "success" ELSE "form"]
     ELSE [out |-> posted, page |-> "form"]

\* submitForm's awaited chain, the requests to the endpoints in failing being
\* answered 500: trackAnalytics catches the error of an analytics request,
\* the error of the submission reaches submitForm's catch block.
submitFormWith(db, elapsed, step, data, failing) ==
  LET tracked == IF "event" \in failing THEN Caught(db, "event")
                 ELSE postEvent(db, EventBody(step, "submit"))
      posted == IF "form-submissions" \in failing
                THEN Caught(tracked.db, "form-submissions")
                ELSE postFormSubmissions(tracked.db, clock, data)
      timeToComplete == (clock - sessionStartTime) * SecondsPerDay + elapsed
      completed == IF "session-complete" \in failing
                   THEN Caught(posted.db, "session-complete")
                   ELSE patchSessionComplete(posted.db, clock,
                          [sessionId |-> WizardSession,
                           submissionId |-> posted.response.body.id,
                           timeToComplete |-> timeToComplete])
  IN IF ResOk(posted.response)
     THEN [out |-> completed, page |-> "success"]
     ELSE [out |-> posted, page |-> "form"]

\* Settle with a failed submission sent again by itself.
Settle_Retrying(req, failing) ==
  /\ BagIn(req, network)
  /\ failing \subseteq
       (IF req.endpoint = "submit"
        THEN {"event", "form-submissions", "session-complete"}
        ELSE {req.endpoint})
  /\ CASE req.endpoint = "session-start" ->
            /\ Serve(IF failing # {} THEN Caught(CurrentDb, "session-start")
                     ELSE postSessionStart(CurrentDb, clock,
                                           [sessionId |-> req.sessionId]))
            /\ network' = network (-) SetToBag({req})
            /\ UNCHANGED <<page, isSubmitting>>
       [] req.endpoint = "event" ->
            /\ Serve(IF failing # {} THEN Caught(CurrentDb, "event")
                     ELSE postEvent(CurrentDb, [sessionId |-> req.sessionId,
                                                step |-> req.step,
                                                eventType |-> req.eventType]))
            /\ network' = network (-) SetToBag({req})
            /\ UNCHANGED <<page, isSubmitting>>
       [] OTHER ->
            /\ Len(submissions) < MaxSubmissions
            /\ \E elapsed \in ElapsedSeconds :
                 LET done == submitFormWith(CurrentDb, elapsed, req.step,
                                            req.data, failing)
                 IN /\ Serve(done.out)
                    /\ page' = done.page
                    /\ isSubmitting' = (done.page = "form")
                    /\ network' = IF done.page = "form" THEN network
                                  ELSE network (-) SetToBag({req})
  /\ UNCHANGED <<clock, currentStep, formData, errors, touched,
                 sessionStartTime>>

\* A request in flight settles, those to the endpoints in failing with 500.
Settle(req, failing) ==
  /\ BagIn(req, network)
  /\ failing \subseteq
       (IF req.endpoint = "submit"
        THEN {"event", "form-submissions", "session-complete"}
        ELSE {req.endpoint})
  /\ network' = network (-) SetToBag({req})
  /\ CASE req.endpoint = "session-start" ->
            /\ Serve(IF failing # {} THEN Caught(CurrentDb, "session-start")
                     ELSE postSessionStart(CurrentDb, clock,
                                           [sessionId |-> req.sessionId]))
            /\ UNCHANGED <<page, isSubmitting>>
       [] req.endpoint = "event" ->
            /\ Serve(IF failing # {} THEN Caught(CurrentDb, "event")
                     ELSE postEvent(CurrentDb, [sessionId |-> req.sessionId,
                                                step |-> req.step,
                                                eventType |-> req.eventType]))
            /\ UNCHANGED <<page, isSubmitting>>
       [] OTHER ->
            /\ Len(submissions) < MaxSubmissions
            /\ \E elapsed \in ElapsedSeconds :
                 LET done == submitFormWith(CurrentDb, elapsed, req.step,
                                            req.data, failing)
                 IN Serve(done.out) /\ page' = done.page
            /\ isSubmitting' = FALSE
  /\ UNCHANGED <<clock, currentStep, formData, errors, touched,
                 sessionStartTime>>

\* One visitor at the wizard; the session's start and the requests of the
\* last step may fail.
NextFailing ==
  \/ Mount
  \/ \E value \in RaceFieldInputs : handleFieldChange(value)
  \/ \E key \in Keys : handleKeyDown(key)
  \/ clickContinue
  \/ clickBack
  \/ \E req \in DOMAIN network, failing \in SUBSET WriteEndpoints :
       /\ failing # {} =>
            req.endpoint = "session-start" \/ req.step = NumQuestions - 1
       /\ Settle(req, failing)

SpecFailing == Init /\ [][NextFailing]_vars

\* The response of a handler whose storage call threw.
Failed(endpoint) == Response("error", 500, Error(FailureMessage(endpoint)))

\* The step settles a submission: its request leaves the requests in flight.
SubmitSettles == SubmitsInFlight(network') < SubmitsInFlight(network)

\* C25: a Next on the last step with an acceptable field sends exactly one
\* submission, and nothing else sends one; a submission that fails, settling
\* with no record stored, is not sent again: the wizard stays on the last
\* step with isSubmitting false and formData as it was and no submission is
\* in flight; a further Next then sends a new one.
C25_FailedSubmissionNotRetried ==
  [][ /\ (IsNext /\ currentStep = NumQuestions - 1
                 /\ Acceptable(currentQuestion, currentValue)) =>
           /\ SubmitsInFlight(network) = 0
           /\ network' (-) network =
                SetToBag({EventRequest(currentStep, "next"),
                          SubmitRequest(currentStep, formData)})
      /\ SubmitsInFlight(network') > SubmitsInFlight(network) => IsNext
      /\ Len(submissions') > Len(submissions) =>
           /\ Len(submissions') = Len(submissions) + 1
           /\ SubmitsInFlight(network') = SubmitsInFlight(network) - 1
      /\ \A req \in DOMAIN network, failing \in SUBSET WriteEndpoints :
           (/\ req.endpoint = "submit"
            /\ "form-submissions" \in failing
            /\ Settle(req, failing)) =>
             SubmitSettles /\ submissions' = submissions
      /\ (SubmitSettles /\ submissions' = submissions) =>
           /\ page' = "form"
           /\ currentStep' = NumQuestions - 1
           /\ ~isSubmitting'
           /\ formData' = formData
           /\ SubmitsInFlight(network') = 0
           /\ ~ResOk(response')
    ]_vars

\* A submission failed and the visitor's further Next has sent a new one.
C25_Witness ==
  /\ page = "form"
  /\ isSubmitting
  /\ SubmitsInFlight(network) = 1
  /\ response = Failed("form-submissions")
  /\ submissions = <<>>

\* C29: at most one submission is in flight, and one is in flight exactly
\* while isSubmitting; while isSubmitting the Continue and Back buttons and
\* the keys Enter, Ctrl+Enter and Escape change neither currentStep nor the
\* requests in flight; isSubmitting is false once the submission settled,
\* whether it succeeded or failed, and only then.
C29_OneSubmissionInFlight ==
  [][ /\ SubmitsInFlight(network') <= 1
      /\ isSubmitting' <=> SubmitsInFlight(network') = 1
      /\ (isSubmitting /\ (clickContinue \/ clickBack
                           \/ \E key \in Keys : handleKeyDown(key))) =>
           /\ currentStep' = currentStep
           /\ network' = network
           /\ isSubmitting'
      /\ SubmitSettles => isSubmitting /\ ~isSubmitting'
      /\ (isSubmitting /\ ~isSubmitting') => SubmitSettles
    ]_vars

\* A submission failed and settled: the wizard is on the last step and can
\* submit again.
C29_Witness ==
  /\ page = "form"
  /\ ~isSubmitting
  /\ currentStep = NumQuestions - 1
  /\ SubmitsInFlight(network) = 0
  /\ response = Failed("form-submissions")

\* C30: an analytics request that settles, failed or not, leaves the wizard
\* as it is; Next and Back move as they do when every request succeeds; the
\* wizard reaches the success page exactly when the submission was stored,
\* also when the session's completion failed.
C30_AnalyticsFailuresSwallowed ==
  [][ /\ (\E req \in DOMAIN network :
            /\ req.endpoint # "submit"
            /\ network' = network (-) SetToBag({req})) =>
           UNCHANGED <<page, currentStep, formData, errors, touched,
                       isSubmitting, sessionStartTime>>
      /\ (IsNext /\ Acceptable(currentQuestion, currentValue)
                 /\ currentStep < NumQuestions - 1) =>
           currentStep' = currentStep + 1
      /\ (IsBack /\ currentStep > 0) => currentStep' = currentStep - 1
      /\ SubmitSettles =>
           /\ page' = "success" <=> Len(submissions') = Len(submissions) + 1
           /\ response' = Failed("session-complete") => page' = "success"
      /\ page' # page =>
           \/ page = "none" /\ page' = "form"
           \/ page = "form" /\ page' = "success" /\ SubmitSettles
    ]_vars

\* The submission was stored and the success page reached although the
\* event and the session's start and completion failed.
C30_Witness ==
  /\ page = "success"
  /\ Len(submissions) = 1
  /\ response = Failed("session-complete")
  /\ sessions = {}

\* C20: after the wizard's submission succeeded, a stored submission holds
\* the name, email, referralSource, referralSourceOther and additionalInfo
\* that were submitted.
C20_StoredRecordCarriesReferral ==
  page = "success" =>
    \E k \in 1..Len(submissions) :
      LET row == submissions[k]
      IN /\ row.name = formData.name
         /\ row.email = formData.email
         /\ row.additionalInfo = formData.additionalInfo
         /\ {"referralSource", "referralSourceOther"} \subseteq DOMAIN row
         /\ row.referralSource = formData.referralSource
         /\ row.referralSourceOther = formData.referralSourceOther

====
